---- MODULE Spec2Model ----
(***************************************************************************)
(* A model of the build engine of build-a-file (package baf):              *)
(* src/baf/datatypes.py, src/baf/__init__.py and src/baf/errors.py.        *)
(*                                                                         *)
(* Python objects are records.  A datum (model or instance) is a record    *)
(* built by NewObj; a Python value handed to build() is a record tagged by *)
(* its field t.  An operation that can raise returns [err, val] (or        *)
(* [err, obj]): err = "none" is a normal return, any other err is the name *)
(* of the exception class raised.                                          *)
(***************************************************************************)
EXTENDS Integers, Sequences, FiniteSets, TLC

\* ------------------------------------------------------------------ bounds
\* Longest raw byte string offered as input to a Bytes field.
MaxBytesLen == 3
\* Longest sequence offered as input to an Array field.
MaxItems == 3

\* -------------------------------------------------------------------- state
VARIABLES
  pc,          \* where the call of baf.build is: idle, instantiated, while, for, returned, raised
  rootcls,     \* root_type
  input,       \* data
  root,        \* root_item
  blockitems,  \* the blockitems of the root's Block._process
  idx,         \* the place of its for loop in blockitems
  progress,    \* its progress flag
  err,         \* the exception that ended the build ("none": none)
  names,       \* the field names in the message of the cyclic-dependency BuildError
  passes,      \* how many times the for loop was entered
  root_path,   \* baf.root_path
  schema,      \* the class attributes of the record classes: the shared field models
  entry,       \* the entry point that started the build, and its data file
  call,        \* the last call the caller made on a datum, and how it ended
  prev         \* how the build before this one ended, when it had the same arguments
vars == <<pc, rootcls, input, root, blockitems, idx, progress, err, names, passes, root_path,
          schema, entry, call, prev>>

\* ------------------------------------------------------- forward declarations
\* The operators of the engine call one another (build, size and offset are
\* mutually recursive), so all of them are declared ahead of their definitions.
RECURSIVE IntFits(_, _, _), int_to_bytes(_, _, _), Base(_), IsSubclass(_, _),
          UnsignedMin(_), UnsignedMax(_), SignedMin(_), SignedMax(_), prim_min(_),
          prim_max(_), IsPrim(_), IsBlock(_), IsDatatype(_), instantiate(_, _),
          Block_fields(_), FieldNames(_), MkPrim(_), MkPrimDefault(_, _), MkBytes(_),
          MkArray(_, _), MkArrayGeneric(_), MkOptional(_), MkAlign(_), MkBlockOf(_, _), MkBlock(_),
          Block_get_items(_, _),
          Array_get_items(_, _), get_items(_, _), ModelItems(_), Truthy(_),
          offset(_, _, _, _), Container_offset_of_count(_, _, _, _, _),
          Container_offset_of(_, _, _, _, _), SumSizes(_, _, _),
          Container_size(_), Align_size(_, _, _, _), size(_, _, _, _), JoinBytes(_, _),
          Container_get_bytes(_), Primitive_get_bytes(_), Align_get_bytes(_),
          Optional_get_bytes(_), get_bytes(_), Container_is_packed_type(_),
          Container_unpack_type(_, _), IsInstanceOfModel(_, _),
          Primitive_preprocess(_, _), Bytes_preprocess(_, _), File_preprocess(_, _, _),
          MkDefault(_), Array_preprocess(_, _), ElemAt(_, _),
          Block_preprocess_from(_, _, _), Block_preprocess_typeonly(_, _),
          Block_preprocess(_, _), NewBlockItem(_, _),
          FieldIndex(_, _), Block_process_start(_, _), Block_force_dependency(_),
          Primitive_int(_), SetterAccess(_, _), RunSetter(_, _, _, _),
          Optional_build(_, _, _, _, _), Align_build(_, _, _, _),
          Array_process_from(_, _, _, _, _), Array_process(_, _, _),
          Datatype_build(_, _, _, _, _, _), build_unguarded(_, _, _, _, _, _),
          build(_, _, _, _, _, _),
          BlockItem_build(_, _, _), NotDoneNames(_), Block_process_step(_, _),
          Block_process_run(_, _), UserBase(_), Declared(_), ClassFields(_), DictProduct(_),
          Dicts(_), BuiltPrim(_, _), SomeBytes(_), SomeList(_), PrimOptions(_), Inputs(_)

\* ------------------------------------------------------- results, exceptions
\* A local variable: K applied to the value v of an expression evaluated once.
Bind(v, K(_)) == K(v)
Ok(v) == [err |-> "none", val |-> v]
Raise(e) == [err |-> e, val |-> <<>>]
ObjOk(o) == [err |-> "none", obj |-> o]
ObjRaise(e, o) == [err |-> e, obj |-> o]

\* ------------------------------------------------------------ Python values
\* A Python int is hi * 65536 + lo with lo in 0..65535, so that the whole
\* range around 2^32 is representable.
NoneV == [t |-> "none"]
IntHL(h, l) == [t |-> "int", hi |-> h, lo |-> l]
PyInt(n) == IntHL(n \div 65536, n % 65536)
BytesV(b) == [t |-> "bytes", b |-> b]
ListV(xs) == [t |-> "list", xs |-> xs]
TupleV(xs) == [t |-> "tuple", xs |-> xs]
DictV(d) == [t |-> "dict", d |-> d]
DatumV(o) == [t |-> "datum", d |-> o]
BoolV(b) == [t |-> "bool", b |-> b]
\* A path string: absolute (in directory dir) or relative; name "" is the
\* empty string.
StrV(abs, dir, name) == [t |-> "str", abs |-> abs, dir |-> dir, name |-> name]

IsInt(v) == v.t = "int"
IntLt(a, b) == a.hi < b.hi \/ (a.hi = b.hi /\ a.lo < b.lo)
IntEq(a, b) == a.hi = b.hi /\ a.lo = b.lo
IntNeg(a) == IF a.lo = 0 THEN IntHL(-a.hi, 0) ELSE IntHL(-a.hi - 1, 65536 - a.lo)
IntPred(a) == IF a.lo = 0 THEN IntHL(a.hi - 1, 65535) ELSE IntHL(a.hi, a.lo - 1)
IntSucc(a) == IF a.lo = 65535 THEN IntHL(a.hi + 1, 0) ELSE IntHL(a.hi, a.lo + 1)
\* 2 ** w for w in 0..47
Pow2(w) == IF w < 16 THEN IntHL(0, 2^w) ELSE IntHL(2^(w - 16), 0)
\* isinstance(v, collections.abc.Sequence)
IsSequence(v) == v.t \in {"list", "tuple", "bytes", "str"}
SeqLen(v) ==
  CASE v.t = "list" -> Len(v.xs)
    [] v.t = "tuple" -> Len(v.xs)
    [] v.t = "bytes" -> Len(v.b)
    [] v.t = "str" -> IF v.name = "" THEN 0 ELSE 1
    [] OTHER -> 0

\* int.to_bytes(length, signed=signed): the byte order is the default of the
\* builtin, "big", since the call passes none.  OverflowError when the value
\* does not fit.
IntFits(v, n, signed) ==
  IF signed
    THEN ~IntLt(v, IntNeg(Pow2(8 * n - 1))) /\ IntLt(v, Pow2(8 * n - 1))
    ELSE ~IntLt(v, PyInt(0)) /\ IntLt(v, Pow2(8 * n))
BigEndian4(v) ==
  LET h == v.hi % 65536
  IN  <<h \div 256, h % 256, v.lo \div 256, v.lo % 256>>
\* int_to_bytes with byteorder "little"
int_to_bytes_little(v, n, signed) ==
  IF ~IntFits(v, n, signed) THEN Raise("OverflowError")
  ELSE Ok([k \in 1..n |-> BigEndian4(v)[5 - k]])
int_to_bytes(v, n, signed) ==
  IF ~IntFits(v, n, signed) THEN Raise("OverflowError")
  ELSE Ok(SubSeq(BigEndian4(v), 5 - n, 4))

\* ----------------------------------------------------------------- classes
\* The class hierarchy of datatypes.py; UserBase gives the base class of a
\* record class declared by a schema.
Base(c) ==
  CASE c \in {"U8", "U16", "U32", "S8", "S16", "S32", "I8", "I16", "I32"} -> "_Primitive"
    [] c \in {"_Primitive", "Bytes", "File", "Container"} -> "Datatype"
    [] c \in {"Block", "Array"} -> "Container"
    [] c = "Align" -> "GenDatatype"
    [] c \in {"Datatype", "GenDatatype", "Optional"} -> "DatatypeBase"
    [] c = "DatatypeBase" -> "object"
    [] OTHER -> UserBase(c)
IsSubclass(c, d) ==
  IF c = d THEN TRUE
  ELSE IF c = "object" THEN FALSE
  ELSE IsSubclass(Base(c), d)

PrimNames == {"U8", "U16", "U32", "S8", "S16", "S32", "I8", "I16", "I32"}
bit_size(c) ==
  CASE c \in {"U8", "S8", "I8"} -> 8
    [] c \in {"U16", "S16", "I16"} -> 16
    [] c \in {"U32", "S32", "I32"} -> 32
UnsignedMin(w) == PyInt(0)
UnsignedMax(w) == IntPred(Pow2(w))
SignedMin(w) == IntNeg(Pow2(w - 1))
SignedMax(w) == IntPred(Pow2(w - 1))
prim_min(c) ==
  IF c \in {"U8", "U16", "U32"} THEN UnsignedMin(bit_size(c)) ELSE SignedMin(bit_size(c))
\* A maximum that is the unsigned one for every class
prim_max_unsigned(c) == UnsignedMax(bit_size(c))
prim_max(c) ==
  IF c \in {"S8", "S16", "S32"} THEN SignedMax(bit_size(c)) ELSE UnsignedMax(bit_size(c))

\* ------------------------------------------------------------------ datums
\* A datum object.  parent is "none" (parent is None), "inst" (the container
\* instance the datum sits in), "model" (the model object that container
\* instance was copied from) or "fresh" (the array, for a default item that
\* Array.get_items makes anew on each call, so that no list holds it).
\* Optional ints are {} (None) or {n}; optional objects are <<>> (None) or
\* <<o>>.  data is NoneV while the attribute _data
\* is unset.  attrs maps a record's field names to the datums set on it.
NewObj(c) ==
  [cls |-> c, is_instance |-> FALSE, is_built |-> FALSE, parent |-> "none",
   default_value |-> NoneV, data |-> NoneV, bsize |-> {}, model |-> <<>>,
   generic_type |-> {}, orig_class |-> {}, item_count |-> {}, items |-> <<>>,
   item |-> <<>>, align_size |-> 0, pad_amount |-> {}, attrs |-> <<>>]

IsPrim(o) == IsSubclass(o.cls, "_Primitive")
IsBlock(o) == IsSubclass(o.cls, "Block")
IsDatatype(o) == IsSubclass(o.cls, "Datatype")

\* DatatypeBase.instantiate: a shallow copy with parent and _is_instance set,
\* and _generic_type taken from the type argument the object was made with
\* (no schema here makes a datum with a TypeVar for its type argument).
instantiate(m, p) ==
  IF m.is_built THEN ObjRaise("BuildError", m)
  ELSE ObjOk([m EXCEPT !.parent = p, !.is_instance = TRUE,
                       !.generic_type = IF m.orig_class # {} THEN m.orig_class
                                        ELSE m.generic_type])

\* A setter of a record field: user code that reads siblings through the
\* engine (size(), offset(), int(), force_dependency()) and returns a value.
NoSetter == [has |-> FALSE, reads |-> <<>>, ret |-> "const", val |-> NoneV]
SetterRead(reads) == [has |-> TRUE, reads |-> reads, ret |-> "read", val |-> NoneV]
SetterConst(reads, v) == [has |-> TRUE, reads |-> reads, ret |-> "const", val |-> v]
Field(n, m, s) == [name |-> n, model |-> m, setter |-> s]

\* Block._fields: the fields of class c in declaration order, as the class
\* attributes hold them now.
Block_fields(c) == IF c \in DOMAIN schema THEN schema[c] ELSE <<>>
FieldNames(c) == Bind(Block_fields(c), LAMBDA fs : {fs[i].name : i \in 1..Len(fs)})

\* Datatype.__init__ and the constructors of the concrete datatypes.
MkPrim(c) == NewObj(c)
MkPrimDefault(c, d) == [NewObj(c) EXCEPT !.default_value = d]
MkBytes(sz) == [NewObj("Bytes") EXCEPT !.bsize = sz]
MkFile == NewObj("File")
MkArray(m, n) == [NewObj("Array") EXCEPT !.model = m, !.item_count = n]
\* Array[c](): an array made with a type argument and no model
MkArrayGeneric(c) == [NewObj("Array") EXCEPT !.orig_class = {c}]
MkOptional(m) == [NewObj("Optional") EXCEPT !.model = <<m>>]
MkAlign(a) == [NewObj("Align") EXCEPT !.align_size = a]
\* Block.__init__: every field is instantiated with the object under
\* construction (the model) as its parent.
MkBlockOf(c, fs) ==
  [NewObj(c) EXCEPT !.attrs =
     [n \in {fs[i].name : i \in 1..Len(fs)} |->
        instantiate(fs[CHOOSE i \in 1..Len(fs) : fs[i].name = n].model, "model").obj]]
MkBlock(c) == Bind(Block_fields(c), LAMBDA fs : MkBlockOf(c, fs))

\* get_items in the reverse of the order of _fields()
Block_get_items_reversed(o, default_if_missing) ==
  Bind(Block_fields(o.cls), LAMBDA fs :
    Ok([i \in 1..Len(fs) |-> o.attrs[fs[Len(fs) + 1 - i].name]]))
\* Block.get_items: the attributes, in the order of _fields().
Block_get_items(o, default_if_missing) ==
  Bind(Block_fields(o.cls), LAMBDA fs : Ok([i \in 1..Len(fs) |-> o.attrs[fs[i].name]]))

Repeat(x, n) == [i \in 1..n |-> x]
\* Array.get_items
Array_get_items(o, default_if_missing) ==
  LET items == o.items IN
  IF o.item_count = {} /\ items = <<>> THEN Raise("DependencyError")
  ELSE IF o.item_count = {} THEN Ok(items)
  ELSE LET items_left == (CHOOSE n \in o.item_count : TRUE) - Len(items) IN
       IF items_left > 0 /\ ~default_if_missing THEN Raise("DependencyError")
       ELSE IF o.model = <<>> THEN Raise("InternalError")
       ELSE IF items_left > 0
         THEN LET ph == instantiate(o.model[1], "fresh") IN
              IF ph.err # "none" THEN Raise(ph.err)
              ELSE Ok(items \o Repeat(ph.obj, items_left))
         ELSE Ok(items)

get_items(o, default_if_missing) ==
  IF IsBlock(o) THEN Block_get_items(o, default_if_missing)
  ELSE Array_get_items(o, default_if_missing)

\* The items of the model object a record instance of class c was copied
\* from: Block.__init__ set them and nothing replaces them.
ModelItems(c) == Block_get_items(MkBlock(c), TRUE).val

\* Array.__len__ of a built array and truth value of a datum (bool(o)):
\* Array defines __len__, every other inner datum is true.
Truthy(o) ==
  IF o.cls = "Array" /\ o.item_count # {} THEN o.item_count # {0}
  ELSE IF o.cls = "Array" THEN o.items # <<>>
  ELSE TRUE

\* size(o, sibs, c, i): o.size() for the datum o, where sibs = get_items(True)
\* of the container instance o sits in, c that container's class and i the
\* place of o in sibs (0: o is not one of sibs).

\* DatatypeBase.offset
offset(o, sibs, c, i) ==
  IF o.parent = "none" THEN Ok(0)
  ELSE IF o.parent = "model" THEN Container_offset_of(ModelItems(c), c, i, 1, 0)
  ELSE IF o.parent = "fresh" THEN Container_offset_of(sibs, c, 0, 1, 0)
  ELSE Container_offset_of(sibs, c, i, 1, 0)

\* offset_of counting the items before the target, not their sizes
Container_offset_of_count(items, c, i, j, acc) ==
  IF j > Len(items) THEN Raise("InternalError")
  ELSE IF j = i THEN Ok(acc)
  ELSE Container_offset_of_count(items, c, i, j + 1, acc + 1)
\* Container.offset_of(target) with the loop at item j and offset acc
Container_offset_of(items, c, i, j, acc) ==
  IF j > Len(items) THEN Raise("InternalError")
  ELSE IF j = i THEN Ok(acc)
  ELSE Bind(size(items[j], items, c, j), LAMBDA s :
         IF s.err # "none" THEN s
         ELSE Container_offset_of(items, c, i, j + 1, acc + s.val))

\* sum(item.size() for item in items), from item j on
SumSizes(items, c, j) ==
  IF j > Len(items) THEN Ok(0)
  ELSE Bind(size(items[j], items, c, j), LAMBDA s :
         IF s.err # "none" THEN s
         ELSE Bind(SumSizes(items, c, j + 1), LAMBDA r :
                IF r.err # "none" THEN r ELSE Ok(s.val + r.val)))

\* Container.size
Container_size(o) ==
  Bind(get_items(o, TRUE), LAMBDA g :
    IF g.err # "none" THEN g ELSE SumSizes(g.val, o.cls, 1))

\* Align.size: a fresh default item of an array asks the array for its
\* offset, which asks a fresh default item for its size, and so on.
Align_size(o, sibs, c, i) ==
  IF o.parent = "fresh" THEN Raise("RecursionError")
  ELSE Bind(offset(o, sibs, c, i), LAMBDA off :
         IF off.err # "none" THEN off
         ELSE Ok((o.align_size - (off.val % o.align_size)) % o.align_size))

size(o, sibs, c, i) ==
  CASE IsPrim(o) -> Ok(bit_size(o.cls) \div 8)
    [] o.cls = "Bytes" ->
         IF o.bsize # {} THEN Ok(CHOOSE n \in o.bsize : TRUE)
         ELSE IF o.data.t = "none" THEN Raise("DependencyError")
         ELSE Ok(Len(o.data.b))
    [] o.cls = "File" ->
         IF o.data.t = "none" THEN Raise("DependencyError") ELSE Ok(Len(o.data.b))
    [] o.cls = "Optional" ->
         IF ~o.is_built THEN Raise("DependencyError")
         ELSE IF o.item # <<>> /\ Truthy(o.item[1]) THEN size(o.item[1], sibs, c, 0)
         ELSE Ok(0)
    [] o.cls = "Align" -> Align_size(o, sibs, c, i)
    [] OTHER -> Container_size(o)

\* ---------------------------------------------------------------- get_bytes
Zeros(n) == [k \in 1..n |-> 0]
JoinBytes(items, j) ==
  IF j > Len(items) THEN Ok(<<>>)
  ELSE Bind(get_bytes(items[j]), LAMBDA b :
         IF b.err # "none" THEN b
         ELSE Bind(JoinBytes(items, j + 1), LAMBDA r :
                IF r.err # "none" THEN r ELSE Ok(b.val \o r.val)))
\* Container._get_bytes
Container_get_bytes(o) ==
  Bind(get_items(o, FALSE), LAMBDA g :
    IF g.err # "none" THEN g ELSE JoinBytes(g.val, 1))
\* _Primitive._get_bytes
Primitive_get_bytes(o) ==
  IF o.data.t = "none" THEN Raise("BuildError")
  ELSE int_to_bytes(o.data, bit_size(o.cls) \div 8, IntLt(o.data, PyInt(0)))
\* Align._get_bytes
Align_get_bytes(o) ==
  IF o.pad_amount = {} THEN Raise("BuildError")
  ELSE Ok(Zeros(CHOOSE n \in o.pad_amount : TRUE))
\* Optional._get_bytes that never asks the inner datum
Optional_get_bytes_empty(o) == Ok(<<>>)
\* Optional._get_bytes
Optional_get_bytes(o) ==
  IF o.item # <<>> /\ Truthy(o.item[1]) THEN get_bytes(o.item[1]) ELSE Ok(<<>>)
\* DatatypeBase.get_bytes
get_bytes(o) ==
  IF ~o.is_instance THEN Raise("BuildError")
  ELSE IF ~o.is_built THEN Raise("BuildError")
  ELSE CASE IsPrim(o) -> Primitive_get_bytes(o)
         [] o.cls \in {"Bytes", "File"} ->
              IF o.data.t = "none" THEN Raise("AttributeError") ELSE Ok(o.data.b)
         [] o.cls = "Optional" -> Optional_get_bytes(o)
         [] o.cls = "Align" -> Align_get_bytes(o)
         [] OTHER -> Container_get_bytes(o)

\* -------------------------------------------------------------------- build
\* Container._is_packed_type: a 2-tuple whose first element is a datum
Container_is_packed_type(data) ==
  data.t = "tuple" /\ Len(data.xs) = 2 /\ data.xs[1].t = "datum"
\* _unpack_type without the check of the type of the tuple's datum
Container_unpack_type_unchecked(model, data) ==
  IF ~Container_is_packed_type(data) THEN [err |-> "none", model |-> model, data |-> data]
  ELSE [err |-> "none", model |-> data.xs[1].d, data |-> data.xs[2]]
\* Container._unpack_type
Container_unpack_type(model, data) ==
  IF ~Container_is_packed_type(data) THEN [err |-> "none", model |-> model, data |-> data]
  ELSE IF ~IsSubclass(data.xs[1].d.cls, model.cls)
    THEN [err |-> "BuildError", model |-> model, data |-> data]
  ELSE [err |-> "none", model |-> data.xs[1].d, data |-> data.xs[2]]
\* isinstance(data, type(model)) for a Python value data
IsInstanceOfModel(data, model) == data.t = "datum" /\ IsSubclass(data.d.cls, model.cls)

\* _Primitive._preprocess
Primitive_preprocess(o, data) ==
  IF data.t # "int" THEN Raise("ValidationError")
  ELSE IF IntLt(data, prim_min(o.cls)) \/ IntLt(prim_max(o.cls), data)
    THEN Raise("ValidationError")
  ELSE Ok(data)
\* Bytes._preprocess (a declared size is an int or None in every schema here)
Bytes_preprocess(o, data) ==
  IF data.t # "bytes" THEN Raise("ValidationError")
  ELSE IF o.bsize # {} /\ o.bsize # {Len(data.b)} THEN Raise("ValidationError")
  ELSE Ok(data)

\* The files on disk: <<directory, name>> -> content.
FileSystem ==
  (<<"dirA", "one.bin">> :> <<1>>) @@ (<<"dirB", "one.bin">> :> <<2, 2>>)
    @@ (<<"dirA", "only_a.bin">> :> <<7, 7, 7>>)
\* File._preprocess; rp is baf.root_path ("unset": the module attribute was
\* never assigned, reading it raises AttributeError).
File_preprocess(o, data, rp) ==
  IF data.t # "str" THEN Raise("ValidationError")
  ELSE IF ~data.abs /\ rp = "unset" THEN Raise("AttributeError")
  ELSE LET dir == IF data.abs THEN data.dir ELSE rp IN
       IF data.name = "" THEN Raise("IsADirectoryError")
       ELSE IF <<dir, data.name>> \notin DOMAIN FileSystem THEN Raise("ValidationError")
       ELSE Ok(BytesV(FileSystem[<<dir, data.name>>]))

\* What type(self)._generic_type() / a class called without arguments builds
MkDefault(c) == IF IsSubclass(c, "Block") THEN MkBlock(c) ELSE NewObj(c)

\* Array._preprocess: sets _model and _item_count on the datum being built
Array_preprocess(o, data) ==
  IF o.model = <<>> /\ o.generic_type = {} THEN ObjRaise("SpecError", o)
  ELSE Bind(IF o.model = <<>>
              THEN [o EXCEPT !.model = <<MkDefault(CHOOSE g \in o.generic_type : TRUE)>>]
              ELSE o, LAMBDA o1 :
         IF ~IsSubclass(o1.model[1].cls, "DatatypeBase") THEN ObjRaise("SpecError", o1)
         ELSE IF ~IsSequence(data) THEN ObjRaise("ValidationError", o1)
         ELSE IF o1.item_count = {} THEN ObjOk([o1 EXCEPT !.item_count = {SeqLen(data)}])
         ELSE IF (CHOOSE n \in o1.item_count : TRUE) < 0 THEN ObjRaise("SpecError", o1)
         ELSE IF o1.item_count # {SeqLen(data)} THEN ObjRaise("ValidationError", o1)
         ELSE ObjOk(o1))

\* The i-th element of a Python sequence
ElemAt(data, i) ==
  CASE data.t = "bytes" -> PyInt(data.b[i])
    [] data.t = "str" -> data
    [] OTHER -> data.xs[i]

\* Block._preprocess, the check of field i and of those after it
Block_preprocess_from(o, data, i) ==
  Bind(Block_fields(o.cls), LAMBDA fs :
    IF i > Len(fs) THEN Ok(data)
    ELSE LET model == fs[i].model IN
         IF model.cls \in {"Align", "Optional"}
              \/ (IsDatatype(model) /\ model.default_value.t # "none")
           THEN Block_preprocess_from(o, data, i + 1)
         ELSE IF fs[i].name \in DOMAIN data.d \/ fs[i].setter.has
           THEN Block_preprocess_from(o, data, i + 1)
         ELSE Raise("ValidationError"))
\* _preprocess that checks the type of the input only
Block_preprocess_typeonly(o, data) ==
  IF data.t # "dict" THEN Raise("ValidationError") ELSE Ok(data)
\* Block._preprocess
Block_preprocess(o, data) ==
  IF data.t # "dict" THEN Raise("ValidationError")
  ELSE Block_preprocess_from(o, data, 1)

\* _BlockItem as Block._process creates and prepopulates it (lines 402-412).
\* setter_returns is the history of line 377: how many times the call of the
\* setter has returned.
NewBlockItem(f, data) ==
  [name |-> f.name, model |-> f.model, base_data |-> data,
   data |-> IF f.name \in DOMAIN data.d THEN data.d[f.name]
            ELSE IF IsDatatype(f.model) /\ f.model.default_value.t # "none"
              THEN f.model.default_value
            ELSE NoneV,
   setter |-> f.setter, setter_done |-> FALSE, done |-> FALSE, setter_returns |-> 0]
FieldIndex(c, n) ==
  Bind(Block_fields(c), LAMBDA fs : CHOOSE i \in 1..Len(fs) : fs[i].name = n)

\* The locals of a running Block._process: self, blockitems, the place in the
\* loops (pc, idx), progress, and the exception raised, if any.
LoopState(o, items, p, i, g, e, ns) ==
  [obj |-> o, blockitems |-> items, pc |-> p, idx |-> i,
   progress |-> g, err |-> e, names |-> ns]
Block_process_start(o, data) ==
  Bind(Block_fields(o.cls), LAMBDA fs :
    LoopState(o, [i \in 1..Len(fs) |-> NewBlockItem(fs[i], data)], "while", 1, FALSE,
              "none", <<>>))

\* Block.force_dependency
Block_force_dependency(model) ==
  IF ~model.is_built THEN Raise("DependencyError") ELSE Ok(NoneV)
\* _Primitive.__int__
Primitive_int(o) ==
  IF o.data.t = "none" THEN Raise("DependencyError") ELSE Ok(o.data)

\* One access of a setter to the sibling self.<f> of the record parent
SetterAccess(rd, parent) ==
  Bind(Block_get_items(parent, TRUE).val, LAMBDA sibs :
  Bind(FieldIndex(parent.cls, rd[2]), LAMBDA i :
  Bind(CASE rd[1] = "size" -> size(sibs[i], sibs, parent.cls, i)
         [] rd[1] = "offset" -> offset(sibs[i], sibs, parent.cls, i)
         [] rd[1] = "force" -> Block_force_dependency(sibs[i])
         [] OTHER -> Primitive_int(sibs[i]), LAMBDA r :
    IF r.err # "none" THEN r
    ELSE IF rd[1] \in {"size", "offset"} THEN Ok(PyInt(r.val))
    ELSE r)))
\* A call of a setter: its accesses in order, then its return value
RunSetter(setter, parent, k, last) ==
  IF k > Len(setter.reads)
    THEN IF setter.ret = "read" THEN Ok(last) ELSE Ok(setter.val)
  ELSE Bind(SetterAccess(setter.reads[k], parent), LAMBDA r :
         IF r.err # "none" THEN r ELSE RunSetter(setter, parent, k + 1, r.val))


\* Optional._build
Optional_build(o, data, sibs, c, rp) ==
  IF ~IsDatatype(o.model[1]) THEN ObjRaise("SpecError", o)
  ELSE IF data.t = "none" \/ (IsSequence(data) /\ SeqLen(data) = 0) THEN ObjOk(o)
  ELSE LET inst == instantiate(o.model[1], o.parent) IN
       IF inst.err # "none" THEN ObjRaise(inst.err, o)
       ELSE Bind(build(inst.obj, data, sibs, c, 0, rp), LAMBDA r :
              IF r.err # "none" THEN ObjRaise(r.err, o)
              ELSE ObjOk([o EXCEPT !.item = <<r.obj>>]))

\* GenDatatype._build with Align._preprocess and Align._process
Align_build(o, sibs, c, i) ==
  IF o.align_size < 2 THEN ObjRaise("SpecError", o)
  ELSE Bind(size(o, sibs, c, i), LAMBDA s :
         IF s.err # "none" THEN ObjRaise(s.err, o)
         ELSE ObjOk([o EXCEPT !.pad_amount = {s.val}]))

\* Array._process: the loop from element i on, items the list built so far
Array_process_from(o, data, i, items, rp) ==
  IF i > SeqLen(data) THEN ObjOk([o EXCEPT !.items = items])
  ELSE LET data_item == ElemAt(data, i) IN
       IF IsInstanceOfModel(data_item, o.model[1])
         THEN Array_process_from(o, data, i + 1, Append(items, data_item.d), rp)
       ELSE LET u == Container_unpack_type(o.model[1], data_item) IN
            IF u.err # "none" THEN ObjRaise(u.err, o)
            ELSE LET inst == instantiate(u.model, "inst") IN
                 IF inst.err # "none" THEN ObjRaise(inst.err, o)
                 ELSE Bind(Array_get_items(o, TRUE), LAMBDA g :
                      Bind(build(inst.obj, u.data, IF g.err = "none" THEN g.val ELSE <<>>,
                                 "Array", 0, rp), LAMBDA r :
                        IF r.err # "none" THEN ObjRaise(r.err, o)
                        ELSE Array_process_from(o, data, i + 1, Append(items, r.obj), rp)))
Array_process(o, data, rp) ==
  IF o.model = <<>> THEN ObjRaise("InternalError", o)
  ELSE Array_process_from(o, data, 1, <<>>, rp)

\* Datatype._build for each data-absorbing class, GenDatatype._build for Align
Datatype_build(o, data, sibs, c, i, rp) ==
  CASE IsPrim(o) ->
         LET p == Primitive_preprocess(o, data) IN
         IF p.err # "none" THEN ObjRaise(p.err, o) ELSE ObjOk([o EXCEPT !.data = p.val])
    [] o.cls = "Bytes" ->
         LET p == Bytes_preprocess(o, data) IN
         IF p.err # "none" THEN ObjRaise(p.err, o) ELSE ObjOk([o EXCEPT !.data = p.val])
    [] o.cls = "File" ->
         LET p == File_preprocess(o, data, rp) IN
         IF p.err # "none" THEN ObjRaise(p.err, o) ELSE ObjOk([o EXCEPT !.data = p.val])
    [] o.cls = "Array" ->
         Bind(Array_preprocess(o, data), LAMBDA p :
           IF p.err # "none" THEN p ELSE Array_process(p.obj, data, rp))
    [] o.cls = "Optional" -> Optional_build(o, data, sibs, c, rp)
    [] o.cls = "Align" -> Align_build(o, sibs, c, i)
    [] OTHER ->
         Bind(Block_preprocess(o, data), LAMBDA p :
           IF p.err # "none" THEN ObjRaise(p.err, o)
           ELSE Bind(Block_process_run(Block_process_start(o, data), rp), LAMBDA st :
                  IF st.pc = "raised" THEN ObjRaise(st.err, st.obj) ELSE ObjOk(st.obj)))

\* build without its two guards
build_unguarded(o, data, sibs, c, i, rp) ==
  LET b == [o EXCEPT !.is_built = TRUE] IN
  Datatype_build(b, data, IF i > 0 THEN [sibs EXCEPT ![i] = b] ELSE sibs, c, i, rp)
\* DatatypeBase.build
build(o, data, sibs, c, i, rp) ==
  IF ~o.is_instance THEN ObjRaise("BuildError", o)
  ELSE IF o.is_built THEN ObjRaise("BuildError", o)
  ELSE LET b == [o EXCEPT !.is_built = TRUE] IN
       Datatype_build(b, data,
                      IF i > 0 THEN [sibs EXCEPT ![i] = b] ELSE sibs, c, i, rp)

\* _BlockItem.build that calls the setter in every attempt
BlockItem_build_rerun(bi, parent, rp) ==
  Bind(IF bi.setter.has
         THEN RunSetter(bi.setter, parent, 1, NoneV)
         ELSE Ok(bi.data), LAMBDA s :
  IF s.err # "none" THEN [err |-> s.err, item |-> bi, parent |-> parent]
  ELSE
    LET ran == bi.setter.has
        b1 == [bi EXCEPT !.data = s.val,
                         !.setter_done = IF bi.setter.has THEN TRUE ELSE bi.setter_done,
                         !.setter_returns = IF ran THEN @ + 1 ELSE @]
    IN
    IF IsInstanceOfModel(b1.data, b1.model)
      THEN [err |-> "none", item |-> [b1 EXCEPT !.done = TRUE],
            parent |-> [parent EXCEPT !.attrs[b1.name] = b1.data.d]]
    ELSE
      LET u == Container_unpack_type(b1.model, b1.data) IN
      IF u.err # "none" THEN [err |-> u.err, item |-> b1, parent |-> parent]
      ELSE
        LET inst == instantiate(u.model, "inst") IN
        IF inst.err # "none" THEN [err |-> inst.err, item |-> b1, parent |-> parent]
        ELSE
          Bind(build(inst.obj, u.data,
                     Block_get_items([parent EXCEPT !.attrs[b1.name] = inst.obj], TRUE).val,
                     parent.cls, FieldIndex(parent.cls, b1.name), rp), LAMBDA r :
            LET p2 == [parent EXCEPT !.attrs[b1.name] = r.obj]
            IN  IF r.err # "none" THEN [err |-> r.err, item |-> b1, parent |-> p2]
                ELSE [err |-> "none", item |-> [b1 EXCEPT !.done = TRUE], parent |-> p2]))
\* _BlockItem.build that builds the datum an abandoned attempt left in the
\* field instead of a new instance
BlockItem_build_reuse(bi, parent, rp) ==
  Bind(IF bi.setter.has /\ ~bi.setter_done
         THEN RunSetter(bi.setter, parent, 1, NoneV)
         ELSE Ok(bi.data), LAMBDA s :
  IF s.err # "none" THEN [err |-> s.err, item |-> bi, parent |-> parent]
  ELSE
    LET ran == bi.setter.has /\ ~bi.setter_done
        b1 == [bi EXCEPT !.data = s.val,
                         !.setter_done = IF bi.setter.has THEN TRUE ELSE bi.setter_done,
                         !.setter_returns = IF ran THEN @ + 1 ELSE @]
    IN
    IF IsInstanceOfModel(b1.data, b1.model)
      THEN [err |-> "none", item |-> [b1 EXCEPT !.done = TRUE],
            parent |-> [parent EXCEPT !.attrs[b1.name] = b1.data.d]]
    ELSE
      LET u == Container_unpack_type(b1.model, b1.data) IN
      IF u.err # "none" THEN [err |-> u.err, item |-> b1, parent |-> parent]
      ELSE
        LET inst == IF parent.attrs[b1.name].is_built
                      THEN ObjOk(parent.attrs[b1.name])
                      ELSE instantiate(u.model, "inst") IN
        IF inst.err # "none" THEN [err |-> inst.err, item |-> b1, parent |-> parent]
        ELSE
          Bind(build(inst.obj, u.data,
                     Block_get_items([parent EXCEPT !.attrs[b1.name] = inst.obj], TRUE).val,
                     parent.cls, FieldIndex(parent.cls, b1.name), rp), LAMBDA r :
            LET p2 == [parent EXCEPT !.attrs[b1.name] = r.obj]
            IN  IF r.err # "none" THEN [err |-> r.err, item |-> b1, parent |-> p2]
                ELSE [err |-> "none", item |-> [b1 EXCEPT !.done = TRUE], parent |-> p2]))
\* _BlockItem.build(parent) for the blockitem bi: [err, item, parent] are the
\* exception, the blockitem and the record after the call.
BlockItem_build(bi, parent, rp) ==
  Bind(IF bi.setter.has /\ ~bi.setter_done
         THEN RunSetter(bi.setter, parent, 1, NoneV)
         ELSE Ok(bi.data), LAMBDA s :
  IF s.err # "none" THEN [err |-> s.err, item |-> bi, parent |-> parent]
  ELSE
    LET ran == bi.setter.has /\ ~bi.setter_done
        b1 == [bi EXCEPT !.data = s.val,
                         !.setter_done = IF bi.setter.has THEN TRUE ELSE bi.setter_done,
                         !.setter_returns = IF ran THEN @ + 1 ELSE @]
    IN
    IF IsInstanceOfModel(b1.data, b1.model)
      THEN [err |-> "none", item |-> [b1 EXCEPT !.done = TRUE],
            parent |-> [parent EXCEPT !.attrs[b1.name] = b1.data.d]]
    ELSE
      LET u == Container_unpack_type(b1.model, b1.data) IN
      IF u.err # "none" THEN [err |-> u.err, item |-> b1, parent |-> parent]
      ELSE
        LET inst == instantiate(u.model, "inst") IN
        IF inst.err # "none" THEN [err |-> inst.err, item |-> b1, parent |-> parent]
        ELSE
          Bind(build(inst.obj, u.data,
                     Block_get_items([parent EXCEPT !.attrs[b1.name] = inst.obj], TRUE).val,
                     parent.cls, FieldIndex(parent.cls, b1.name), rp), LAMBDA r :
            LET p2 == [parent EXCEPT !.attrs[b1.name] = r.obj]
            IN  IF r.err # "none" THEN [err |-> r.err, item |-> b1, parent |-> p2]
                ELSE [err |-> "none", item |-> [b1 EXCEPT !.done = TRUE], parent |-> p2]))

\* The names of all blockitems, done or not
NotDoneNames_all(items) == [k \in 1..Len(items) |-> items[k].name]
NotDoneNames(items) ==
  LET idxs == {i \in 1..Len(items) : ~items[i].done}
      F[k \in 0..Len(items)] ==
        IF k = 0 THEN <<>>
        ELSE IF k \in idxs THEN Append(F[k - 1], items[k].name) ELSE F[k - 1]
  IN  F[Len(items)]

\* A resolver that handles every exception of an attempt as it handles
\* DependencyError
Block_process_step_swallow(st, rp) ==
  LET n == Len(st.blockitems) IN
  IF st.pc = "while"
    THEN IF \E k \in 1..n : ~st.blockitems[k].done
           THEN [st EXCEPT !.pc = "for", !.idx = 1, !.progress = FALSE]
           ELSE [st EXCEPT !.pc = "returned"]
  ELSE IF st.idx > n
    THEN IF ~st.progress
           THEN [st EXCEPT !.pc = "raised", !.err = "BuildError",
                           !.names = NotDoneNames(st.blockitems)]
           ELSE [st EXCEPT !.pc = "while"]
  ELSE IF st.blockitems[st.idx].done THEN [st EXCEPT !.idx = st.idx + 1]
  ELSE Bind(BlockItem_build(st.blockitems[st.idx], st.obj, rp), LAMBDA r :
         IF r.err # "none"
           THEN [st EXCEPT !.obj = r.parent, !.blockitems[st.idx] = r.item,
                           !.idx = st.idx + 1]
         ELSE [st EXCEPT !.obj = r.parent, !.blockitems[st.idx] = r.item,
                         !.idx = st.idx + 1, !.progress = TRUE])
\* One step of Block._process (lines 414-430): the test of the while loop
\* (pc = "while"), one round of the for loop (pc = "for", idx <= number of
\* fields), or the check after the for loop (idx past the last field).
Block_process_step(st, rp) ==
  LET n == Len(st.blockitems) IN
  IF st.pc = "while"
    THEN IF \E k \in 1..n : ~st.blockitems[k].done
           THEN [st EXCEPT !.pc = "for", !.idx = 1, !.progress = FALSE]
           ELSE [st EXCEPT !.pc = "returned"]
  ELSE IF st.idx > n
    THEN IF ~st.progress
           THEN [st EXCEPT !.pc = "raised", !.err = "BuildError",
                           !.names = NotDoneNames(st.blockitems)]
           ELSE [st EXCEPT !.pc = "while"]
  ELSE IF st.blockitems[st.idx].done THEN [st EXCEPT !.idx = st.idx + 1]
  ELSE Bind(BlockItem_build(st.blockitems[st.idx], st.obj, rp), LAMBDA r :
         IF r.err = "DependencyError"
           THEN [st EXCEPT !.obj = r.parent, !.blockitems[st.idx] = r.item,
                           !.idx = st.idx + 1]
         ELSE IF r.err # "none"
           THEN [st EXCEPT !.obj = r.parent, !.blockitems[st.idx] = r.item,
                           !.pc = "raised", !.err = r.err]
         ELSE [st EXCEPT !.obj = r.parent, !.blockitems[st.idx] = r.item,
                         !.idx = st.idx + 1, !.progress = TRUE])
\* Block._process run to its end, as the build of a nested record runs it
Block_process_run(st, rp) ==
  IF st.pc \in {"returned", "raised"} THEN st
  ELSE Block_process_run(Block_process_step(st, rp), rp)

\* ------------------------------------------------------------------ schemas
\* The record classes the engine is run on.  R is an abstract record with
\* the subclasses R1 and R2; Q is a record that is no subclass of R.
UserBase(c) == IF c \in {"R1", "R2"} THEN "R" ELSE "Block"
PrimRecord ==
  [RecU8 |-> "U8", RecU16 |-> "U16", RecU32 |-> "U32", RecS8 |-> "S8", RecS16 |-> "S16",
   RecS32 |-> "S32", RecI8 |-> "I8", RecI16 |-> "I16", RecI32 |-> "I32"]
\* The model object made by calling class c as the class statement declares
\* it: a field or an element model of a schema holds such an object.
Declared(c) == MkBlockOf(c, ClassFields(c))
RefineR2 == TupleV(<<DatumV(Declared("R2")), DictV("y" :> PyInt(258))>>)
ClassFields(c) ==
  CASE c \in DOMAIN PrimRecord -> <<Field("v", MkPrim(PrimRecord[c]), NoSetter)>>
    [] c = "R" -> <<>>
    [] c = "R1" -> <<Field("x", MkPrim("U8"), NoSetter)>>
    [] c = "R2" -> <<Field("y", MkPrim("U16"), NoSetter)>>
    [] c = "Q" -> <<Field("q", MkPrim("U8"), NoSetter)>>
    [] c = "Pair" -> <<Field("a", MkPrim("U16"), NoSetter), Field("b", MkPrim("S8"), NoSetter)>>
    [] c = "Counted" -> <<Field("xs", MkArray(<<MkPrim("U8")>>, {2}), NoSetter)>>
    [] c = "Uncounted" -> <<Field("xs", MkArray(<<MkPrim("U8")>>, {}), NoSetter)>>
    [] c = "Opt" -> <<Field("opt", MkOptional(MkPrim("U32")), NoSetter)>>
    [] c = "OptBytes" -> <<Field("o", MkOptional(MkBytes({})), NoSetter),
                           Field("t", MkPrim("U8"), NoSetter)>>
    [] c = "Padded" -> <<Field("a", MkBytes({}), NoSetter),
                         Field("pad", MkAlign(4), NoSetter),
                         Field("b", MkPrim("U8"), NoSetter)>>
    [] c = "Refined" -> <<Field("f", Declared("R"), NoSetter)>>
    [] c = "Sized" -> <<Field("n", MkPrim("U16"), SetterRead(<< <<"size", "xs">> >>)),
                        Field("xs", MkBytes({}), NoSetter)>>
    [] c = "Late" -> <<Field("f", Declared("R"),
                             SetterConst(<< <<"size", "z">> >>, RefineR2)),
                       Field("pad", MkAlign(4), NoSetter),
                       Field("z", MkBytes({}), NoSetter)>>
    [] c = "Inner" -> <<Field("a", MkPrim("U8"), NoSetter),
                        Field("pad", MkAlign(4), NoSetter),
                        Field("b", MkPrim("U8"), NoSetter)>>
    [] c = "Outer" -> <<Field("h", MkBytes({}), NoSetter),
                        Field("inner", Declared("Inner"), NoSetter)>>
    [] c = "OwnOffset" -> <<Field("xs", MkBytes({}), NoSetter),
                            Field("n", MkPrim("U16"), SetterRead(<< <<"offset", "n">> >>))>>
    [] c = "Cyclic" -> <<Field("a", MkPrim("U8"), SetterRead(<< <<"int", "b">> >>)),
                         Field("b", MkPrim("U8"), SetterRead(<< <<"int", "a">> >>)),
                         Field("c", MkPrim("U8"), NoSetter)>>
    [] c = "Chain" -> <<Field("a", MkPrim("U8"), SetterRead(<< <<"int", "b">> >>)),
                        Field("b", MkPrim("U8"), SetterRead(<< <<"int", "c">> >>)),
                        Field("c", MkPrim("U8"), NoSetter)>>
    [] c = "OptInner" -> <<Field("o", MkOptional(Declared("Inner")), NoSetter),
                           Field("t", MkPrim("U8"), NoSetter)>>
    [] c = "Nest" -> <<Field("k", Declared("Cyclic"), NoSetter)>>
    [] c = "WithFile" -> <<Field("f", MkFile, NoSetter), Field("t", MkPrim("U8"), NoSetter)>>
    [] c = "RefArr" -> <<Field("xs", MkArray(<<Declared("R")>>, {}), NoSetter)>>
    [] c = "Generic" -> <<Field("xs", MkArrayGeneric("U8"), NoSetter)>>
    [] c = "Untyped" -> <<Field("xs", MkArray(<<>>, {}), NoSetter)>>
    [] c = "NegCount" -> <<Field("xs", MkArray(<<MkPrim("U8")>>, {-1}), NoSetter)>>
    [] c = "Defaulted" -> <<Field("a", MkPrimDefault("U8", PyInt(5)), NoSetter),
                            Field("o", MkOptional(MkPrim("U8")), NoSetter),
                            Field("pad", MkAlign(2), NoSetter),
                            Field("s", MkPrim("U8"), SetterRead(<< <<"int", "a">> >>)),
                            Field("b", MkPrim("U8"), NoSetter)>>
    [] c = "OptR" -> <<Field("o", MkOptional(Declared("R")), NoSetter),
                       Field("t", MkPrim("U8"), NoSetter)>>
    [] c = "AlignArr" -> <<Field("h", MkPrim("U8"), NoSetter),
                           Field("xs", MkArray(<<MkAlign(4)>>, {}), NoSetter)>>
    [] c = "Forced" -> <<Field("n", MkPrim("U8"), SetterConst(<< <<"force", "pad">> >>, PyInt(7))),
                         Field("z", MkBytes({}),
                               SetterConst(<< <<"size", "xs">> >>, BytesV(<<101>>))),
                         Field("pad", MkAlign(4), NoSetter),
                         Field("xs", MkBytes({}), NoSetter)>>
    [] c = "Once" -> <<Field("z", MkBytes({}),
                             SetterConst(<< <<"size", "xs">> >>, BytesV(<<101>>))),
                       Field("p", MkAlign(4), SetterConst(<<>>, NoneV)),
                       Field("xs", MkBytes({}), NoSetter)>>
    [] c = "ForcedOk" -> <<Field("n", MkPrim("U8"),
                                 SetterRead(<< <<"force", "z">>, <<"size", "z">> >>)),
                           Field("pad", MkAlign(4), NoSetter),
                           Field("z", MkBytes({}), NoSetter)>>
    [] OTHER -> <<>>
RootClasses ==
  DOMAIN PrimRecord \cup
  {"R", "Pair", "Counted", "Uncounted", "Opt", "OptBytes", "Padded", "Refined", "Sized",
   "Late", "Outer", "OwnOffset", "Cyclic", "Chain", "Nest", "WithFile", "RefArr",
   "Generic", "Untyped", "NegCount", "OptInner", "Defaulted", "OptR", "AlignArr", "Forced",
   "ForcedOk", "Once"}
\* Every record class that is declared
Classes == RootClasses \cup {"R1", "R2", "Q", "Inner"}

\* ------------------------------------------------------------------- inputs
\* The inputs offered to each root class.  A field's options are a sequence
\* whose entries are <<>> (the key is absent) or <<v>> (the key maps to v).
DictProduct(specs) ==
  IF specs = <<>> THEN << <<>> >>
  ELSE LET rest == DictProduct(Tail(specs))
           n == Head(specs)[1]
           opts == Head(specs)[2]
       IN  [k \in 1..(Len(rest) * Len(opts)) |->
              LET r == rest[((k - 1) \div Len(opts)) + 1]
                  o == opts[((k - 1) % Len(opts)) + 1]
              IN  IF Len(o) = 0 THEN r ELSE (n :> o[1]) @@ r]
Dicts(specs) == LET ds == DictProduct(specs) IN [k \in 1..Len(ds) |-> DictV(ds[k])]
SomeBytes(n) == BytesV([k \in 1..n |-> 100 + k])
BytesOptions == [k \in 1..(MaxBytesLen + 1) |-> <<SomeBytes(k - 1)>>]
SomeList(n) == ListV([k \in 1..n |-> PyInt(k)])
ListOptions == [k \in 1..(MaxItems + 1) |-> <<SomeList(k - 1)>>]
\* A datum of primitive class c built on its own with the int n, as a setter
\* or the caller may hand one in
BuiltPrim(c, n) ==
  build(instantiate(MkPrim(c), "none").obj, PyInt(n), <<>>, "object", 0, "unset").obj
\* Lists that hold datums: a built one, and a model that was never built
DatumLists ==
  << <<ListV(<<DatumV(BuiltPrim("U8", 7)), PyInt(1)>>)>>,
     <<ListV(<<PyInt(1), DatumV(MkPrim("U8"))>>)>> >>
\* Refinement tuples for a field or an element declared as R
RefineR1 == TupleV(<<DatumV(MkBlock("R1")), DictV("x" :> PyInt(5))>>)
RefineQ == TupleV(<<DatumV(MkBlock("Q")), DictV("q" :> PyInt(5))>>)
RefineU8 == TupleV(<<DatumV(MkPrim("U8")), PyInt(5)>>)
\* Around the ends of the range of primitive c, and inside it
PrimOptions(c) ==
  LET w == bit_size(c) IN
  << <<IntPred(prim_min(c))>>, <<prim_min(c)>>, <<PyInt(-1)>>, <<PyInt(0)>>, <<PyInt(1)>>,
     <<IF w = 8 THEN PyInt(18) ELSE IF w = 16 THEN PyInt(4660) ELSE IntHL(4660, 22136)>>,
     <<SignedMax(w)>>, <<Pow2(w - 1)>>, <<prim_max(c)>>, <<IntSucc(prim_max(c))>>,
     <<SomeBytes(1)>>, <<BoolV(TRUE)>>, <<>> >>
Inputs(c) ==
  CASE c \in DOMAIN PrimRecord -> Dicts(<< <<"v", PrimOptions(PrimRecord[c])>> >>)
    [] c = "R" -> <<DictV(<<>>), ListV(<<>>)>>
    [] c = "Pair" -> Dicts(<< <<"a", << <<PyInt(4660)>>, <<PyInt(65536)>> >> >>,
                              <<"b", << <<PyInt(-1)>>, <<PyInt(127)>>, <<>>,
                                        <<DatumV(BuiltPrim("S8", -2))>>,
                                        <<DatumV(MkPrim("S8"))>>,
                                        <<DatumV(BuiltPrim("U8", 1))>> >> >> >>)
    [] c \in {"Counted", "Uncounted", "Generic"} ->
         Dicts(<< <<"xs", ListOptions \o DatumLists
                            \o << <<SomeBytes(2)>>, <<TupleV(<<PyInt(1), PyInt(2)>>)>>,
                                   <<PyInt(2)>>, <<ListV(<<PyInt(1), PyInt(256)>>)>> >> >> >>)
    [] c \in {"Untyped", "NegCount"} ->
         Dicts(<< <<"xs", << <<SomeList(0)>>, <<SomeList(1)>>, <<PyInt(2)>> >> >> >>)
    [] c = "RefArr" ->
         Dicts(<< <<"xs", << <<ListV(<<RefineR1, RefineR2>>)>>,
                             <<ListV(<<RefineR1, RefineQ>>)>>,
                             <<ListV(<<RefineU8>>)>>,
                             <<ListV(<<DictV(<<>>), RefineR2>>)>>,
                             <<ListV(<<>>)>> >> >> >>)
    [] c = "OptInner" ->
         Dicts(<< <<"o", << <<DictV(("a" :> PyInt(2)) @@ ("b" :> PyInt(3)))>>,
                            <<NoneV>>, <<>>, <<DictV(<<>>)>> >> >>,
                  <<"t", << <<PyInt(9)>> >> >> >>)
    [] c = "Nest" -> Dicts(<< <<"k", << <<DictV("c" :> PyInt(1))>>, <<DictV(<<>>)>> >> >> >>)
    [] c = "WithFile" ->
         Dicts(<< <<"f", << <<StrV(TRUE, "dirA", "one.bin")>>,
                            <<StrV(TRUE, "dirB", "one.bin")>>,
                            <<StrV(TRUE, "dirB", "only_a.bin")>>,
                            <<StrV(FALSE, "", "one.bin")>>,
                            <<PyInt(1)>> >> >>,
                  <<"t", << <<PyInt(9)>> >> >> >>)
    [] c = "Opt" -> Dicts(<< <<"opt", << <<PyInt(1)>>, <<NoneV>>, <<ListV(<<>>)>>, <<>>,
                                         <<IntHL(65535, 65535)>> >> >> >>)
    [] c = "OptBytes" -> Dicts(<< <<"o", BytesOptions \o << <<>>, <<NoneV>> >> >>,
                                  <<"t", << <<PyInt(9)>> >> >> >>)
    [] c = "Padded" -> Dicts(<< <<"a", BytesOptions>>, <<"b", << <<PyInt(187)>> >> >> >>)
    [] c = "Refined" ->
         Dicts(<< <<"f", << <<RefineR2>>, <<RefineR1>>, <<RefineQ>>, <<RefineU8>>,
                            <<TupleV(<<DatumV(MkBlock("R")), DictV(<<>>)>>)>>,
                            <<TupleV(<<DatumV(MkBlock("R1")), DictV(<<>>)>>)>>,
                            <<DictV(<<>>)>> >> >> >>)
    [] c = "Sized" -> Dicts(<< <<"xs", BytesOptions>> >>)
    [] c = "Defaulted" ->
         Dicts(<< <<"a", << <<>>, <<PyInt(2)>> >> >>,
                  <<"b", << <<PyInt(1)>>, <<>>, <<NoneV>> >> >> >>)
           \o <<ListV(<<PyInt(1)>>), NoneV>>
    [] c = "OptR" ->
         Dicts(<< <<"o", << <<RefineR2>>, <<RefineQ>>, <<DictV(<<>>)>>, <<>> >> >>,
                  <<"t", << <<PyInt(9)>> >> >> >>)
    [] c = "AlignArr" ->
         Dicts(<< <<"h", << <<PyInt(1)>> >> >>,
                  <<"xs", << <<ListV(<<NoneV>>)>>, <<ListV(<<>>)>> >> >> >>)
    [] c = "Forced" -> Dicts(<< <<"xs", BytesOptions>> >>)
    [] c = "ForcedOk" -> Dicts(<< <<"z", BytesOptions>> >>)
    [] c = "Once" -> Dicts(<< <<"xs", BytesOptions>> >>)
    [] c = "Late" -> Dicts(<< <<"z", BytesOptions>> >>)
    [] c = "Outer" ->
         Dicts(<< <<"h", BytesOptions>>,
                  <<"inner", << <<DictV(("a" :> PyInt(2)) @@ ("b" :> PyInt(3)))>>,
                                <<DictV("a" :> PyInt(2))>> >> >> >>)
    [] c = "OwnOffset" -> Dicts(<< <<"xs", BytesOptions>> >>)
    [] c = "Cyclic" -> Dicts(<< <<"c", << <<PyInt(1)>>, <<PyInt(256)>> >> >> >>)
    [] c = "Chain" -> Dicts(<< <<"c", << <<PyInt(1)>>, <<PyInt(256)>> >> >> >>)
    [] OTHER -> <<>>

\* The data files the caller has: the directory each is in, its format, the
\* class it is built with and what its decoder returns; exists is FALSE for
\* a path at which there is no file.
DataFile(dir, fmt, exists, c, d) ==
  [dir |-> dir, fmt |-> fmt, exists |-> exists, cls |-> c, data |-> d]
RelativeFile(name) == DictV(("f" :> StrV(FALSE, "", name)) @@ ("t" :> PyInt(9)))
DataFiles ==
  <<DataFile("dirA", "json", TRUE, "WithFile", RelativeFile("one.bin")),
    DataFile("dirB", "json", TRUE, "WithFile", RelativeFile("one.bin")),
    DataFile("dirA", "toml", TRUE, "WithFile", RelativeFile("only_a.bin")),
    DataFile("dirB", "toml", TRUE, "WithFile", RelativeFile("only_a.bin")),
    DataFile("dirB", "json", FALSE, "WithFile", NoneV),
    DataFile("dirA", "toml", TRUE, "Pair", DictV(("a" :> PyInt(4660)) @@ ("b" :> PyInt(-1))))>>

\* ------------------------------------------------------------ the build call

NoObj == NewObj("object")
NoEntry == [kind |-> "none", dir |-> "", file |-> 0]
NoCall == [op |-> "none", on |-> "none", err |-> "none", val |-> <<>>]
NoPrev == [known |-> FALSE, err |-> "none", bytes |-> Ok(<<>>)]
Init ==
  /\ pc = "idle"
  /\ rootcls = "object"
  /\ input = NoneV
  /\ root = NoObj
  /\ blockitems = <<>>
  /\ idx = 1
  /\ progress = FALSE
  /\ err = "none"
  /\ names = <<>>
  /\ passes = 0
  /\ root_path = "unset"
  /\ schema = [c \in Classes |-> ClassFields(c)]
  /\ entry = NoEntry
  /\ call = NoCall
  /\ prev = NoPrev

\* The caller holds no tree and is free to call an entry point
Idle == pc = "idle"
\* How the build that has ended ended: what it raised and the bytes of its tree
Outcome == [known |-> TRUE, err |-> err, bytes |-> get_bytes(root)]
\* baf.build, line 33, for the arguments c and d: root_type().instantiate(None)
Enter(c, d) ==
  /\ rootcls' = c
  /\ input' = d
  /\ root' = instantiate(MkBlock(c), "none").obj
  /\ pc' = "instantiated"
  /\ blockitems' = <<>>
  /\ idx' = 1
  /\ progress' = FALSE
  /\ err' = "none"
  /\ names' = <<>>
  /\ passes' = 0
  /\ call' = NoCall
  /\ UNCHANGED schema

\* baf.build(root_type, data) called with a class and an in-memory dict, up
\* to line 33; baf.root_path is left as it is.
Instantiate ==
  /\ Idle
  /\ \E c \in RootClasses : \E k \in 1..Len(Inputs(c)) : Enter(c, Inputs(c)[k])
  /\ entry' = [kind |-> "build", dir |-> "", file |-> 0]
  /\ prev' = NoPrev
  /\ UNCHANGED root_path

\* baf.build_json / baf.build_toml (fmt) called with data file k: root_path is
\* set, then the file is opened and decoded, then baf.build runs to line 33.
BuildFile(fmt, k) ==
  /\ Idle
  /\ DataFiles[k].fmt = fmt
  /\ root_path' = DataFiles[k].dir
  /\ entry' = [kind |-> "build_" \o fmt, dir |-> DataFiles[k].dir, file |-> k]
  /\ prev' = NoPrev
  /\ IF DataFiles[k].exists
       THEN Enter(DataFiles[k].cls, DataFiles[k].data)
       ELSE /\ rootcls' = DataFiles[k].cls
            /\ input' = NoneV
            /\ root' = NoObj
            /\ pc' = "raised"
            /\ err' = "FileNotFoundError"
            /\ blockitems' = <<>>
            /\ idx' = 1
            /\ progress' = FALSE
            /\ names' = <<>>
            /\ passes' = 0
            /\ call' = NoCall
            /\ UNCHANGED schema
BuildJson == \E k \in 1..Len(DataFiles) : BuildFile("json", k)
BuildToml == \E k \in 1..Len(DataFiles) : BuildFile("toml", k)

\* The entry point has returned or raised (baf.build, line 35) and the caller
\* lets go of the tree; baf.root_path and the classes stay as they are.
Forget ==
  /\ pc \in {"returned", "raised"}
  /\ pc' = "idle"
  /\ rootcls' = "object"
  /\ input' = NoneV
  /\ root' = NoObj
  /\ blockitems' = <<>>
  /\ idx' = 1
  /\ progress' = FALSE
  /\ err' = "none"
  /\ names' = <<>>
  /\ passes' = 0
  /\ entry' = NoEntry
  /\ call' = NoCall
  /\ prev' = NoPrev
  /\ UNCHANGED <<root_path, schema>>

\* The caller calls the entry point of the build that has ended once more,
\* with the same arguments.
BuildSame ==
  /\ pc \in {"returned", "raised"}
  /\ entry.kind = "build"
  /\ Enter(rootcls, input)
  /\ prev' = Outcome
  /\ UNCHANGED <<entry, root_path>>

\* The locals of the root's Block._process as one record, and back
Locals == LoopState(root, blockitems, pc, idx, progress, err, names)
SetLocals(st) ==
  /\ root' = st.obj
  /\ blockitems' = st.blockitems
  /\ pc' = st.pc
  /\ idx' = st.idx
  /\ progress' = st.progress
  /\ err' = st.err
  /\ names' = st.names

\* baf.build, line 34: root_item.build(data), up to the first test of the
\* while loop of Block._process
BuildCall ==
  /\ pc = "instantiated"
  /\ LET b == [root EXCEPT !.is_built = TRUE]
     IN  IF ~root.is_instance \/ root.is_built
           THEN SetLocals(LoopState(root, <<>>, "raised", 1, FALSE, "BuildError", <<>>))
         ELSE IF Block_preprocess(b, input).err # "none"
           THEN SetLocals(LoopState(b, <<>>, "raised", 1, FALSE,
                                    Block_preprocess(b, input).err, <<>>))
         ELSE SetLocals(Block_process_start(b, input))
  /\ UNCHANGED <<rootcls, input, passes, root_path, schema, entry, call, prev>>

\* Block._process, line 414: the test of the while loop
LoopTest ==
  /\ pc = "while"
  /\ SetLocals(Block_process_step(Locals, root_path))
  /\ passes' = IF \E k \in 1..Len(blockitems) : ~blockitems[k].done
                 THEN passes + 1 ELSE passes
  /\ UNCHANGED <<rootcls, input, root_path, schema, entry, call, prev>>

\* Block._process, lines 417-418: a field that is done is passed over
Skip ==
  /\ pc = "for"
  /\ idx <= Len(blockitems)
  /\ blockitems[idx].done
  /\ SetLocals(Block_process_step(Locals, root_path))
  /\ UNCHANGED <<rootcls, input, passes, root_path, schema, entry, call, prev>>

\* An engine that builds the model of a field itself instead of a copy: the
\* class attribute is the object that was built
SchemaAfter_inplace(sch, c, o) ==
  [sch EXCEPT ![c] =
     [k \in DOMAIN sch[c] |->
        IF o.attrs[sch[c][k].name].is_built
          THEN [sch[c][k] EXCEPT !.model = o.attrs[sch[c][k].name]]
          ELSE sch[c][k]]]
\* The class attributes after an attempt on the record o of class c:
\* _BlockItem.build calls self.model.instantiate(parent), which copies the
\* model (line 77) and sets parent and _is_instance on the copy; build and
\* _preprocess assign to the attributes of the copy.
SchemaAfter(sch, c, o) == sch

\* Block._process, lines 419-426: item.build(self) and what it raises
Attempt ==
  /\ pc = "for"
  /\ idx <= Len(blockitems)
  /\ ~blockitems[idx].done
  /\ SetLocals(Block_process_step(Locals, root_path))
  /\ schema' = SchemaAfter(schema, rootcls, root')
  /\ UNCHANGED <<rootcls, input, passes, root_path, entry, call, prev>>

\* Block._process, lines 428-430: the end of a pass
EndPass ==
  /\ pc = "for"
  /\ idx > Len(blockitems)
  /\ SetLocals(Block_process_step(Locals, root_path))
  /\ UNCHANGED <<rootcls, input, passes, root_path, schema, entry, call, prev>>

\* ------------------------------------------------- calls on single datums
\* The caller holds root_item (between lines 33 and 34 of baf.build, or when
\* the entry point has returned or raised) and the classes, and calls the
\* methods of DatatypeBase on them.  The caller does so on the first tree it
\* builds: before any data file was built and any build was repeated.
Held ==
  /\ pc \in {"instantiated", "returned", "raised"}
  /\ root # NoObj
  /\ root_path = "unset"
  /\ ~prev.known
Called(op, on, r) == [op |-> op, on |-> on, err |-> r.err, val |-> <<>>]

\* root_item.build(data) once more, on the instance that was built already
CallBuild ==
  /\ Held
  /\ pc # "instantiated"
  /\ \E r \in {build(root, input, <<>>, "object", 0, root_path)} :
       /\ root' = r.obj
       /\ call' = Called("build", "root", r)
  /\ UNCHANGED <<pc, rootcls, input, blockitems, idx, progress, err, names, passes,
                 root_path, schema, entry, prev>>

\* build(data) on a model: the class attribute of field k of the root's class
CallBuildModel ==
  /\ Held
  /\ \E k \in 1..Len(schema[rootcls]) :
       \E r \in {build(schema[rootcls][k].model, input, <<>>, "object", 0, root_path)} :
         /\ schema' = [schema EXCEPT ![rootcls][k].model = r.obj]
         /\ call' = Called("build", "model", r)
  /\ UNCHANGED <<pc, rootcls, input, root, blockitems, idx, progress, err, names, passes,
                 root_path, entry, prev>>

\* root_item.instantiate(None): the copy it returns is dropped
CallInstantiate ==
  /\ Held
  /\ call' = Called("instantiate", "root", instantiate(root, "none"))
  /\ UNCHANGED <<pc, rootcls, input, root, blockitems, idx, progress, err, names, passes,
                 root_path, schema, entry, prev>>

\* get_bytes() of root_item, or of the model that is the class attribute of
\* field k of the root's class
CallGetBytes ==
  /\ Held
  /\ \/ call' = [Called("get_bytes", "root", get_bytes(root)) EXCEPT
                   !.val = get_bytes(root).val]
     \/ \E k \in 1..Len(schema[rootcls]) :
          call' = Called("get_bytes", "model", get_bytes(schema[rootcls][k].model))
  /\ UNCHANGED <<pc, rootcls, input, root, blockitems, idx, progress, err, names, passes,
                 root_path, schema, entry, prev>>

Next ==
  \/ CallBuild \/ CallBuildModel \/ CallInstantiate \/ CallGetBytes
  \/ Instantiate \/ BuildJson \/ BuildToml \/ BuildSame \/ Forget
  \/ BuildCall \/ LoopTest \/ Skip \/ Attempt \/ EndPass
Spec == Init /\ [][Next]_vars

\* --------------------------------------------------------------- properties
\* Byte k (0: least significant) of the two's-complement form of the int v
TwosComplementByte(v, k) ==
  CASE k = 0 -> v.lo % 256
    [] k = 1 -> v.lo \div 256
    [] k = 2 -> (v.hi % 65536) % 256
    [] OTHER -> (v.hi % 65536) \div 256
LittleEndian(v, n) == [k \in 1..n |-> TwosComplementByte(v, k - 1)]
BigEndian(v, n) == [k \in 1..n |-> TwosComplementByte(v, n - k)]
\* The root is a record of one primitive, built with the int input.d.v
PrimBuilt == pc = "returned" /\ rootcls \in DOMAIN PrimRecord
PrimWidth == bit_size(PrimRecord[rootcls]) \div 8

Node(o, sibs, c, i, co, g) == [o |-> o, sibs |-> sibs, c |-> c, i |-> i, co |-> co, g |-> g]
AddSize(g, s) ==
  IF g.err # "none" THEN g ELSE IF s.err # "none" THEN s ELSE Ok(g.val + s.val)
RECURSIVE Nodes(_, _, _, _, _, _), ChildNodes(_, _, _, _, _)
Nodes(o, sibs, c, i, co, g) ==
  <<Node(o, sibs, c, i, co, g)>> \o
  (CASE IsBlock(o) \/ o.cls = "Array" ->
          Bind(get_items(o, TRUE), LAMBDA r :
            IF r.err # "none" THEN <<>>
            ELSE ChildNodes(r.val, o.cls, 1, offset(o, sibs, c, i), g))
     [] o.cls = "Optional" /\ o.item # <<>> -> Nodes(o.item[1], sibs, c, 0, co, g)
     [] OTHER -> <<>>)
ChildNodes(items, c, j, co, g) ==
  IF j > Len(items) THEN <<>>
  ELSE Nodes(items[j], items, c, j, co, g)
         \o ChildNodes(items, c, j + 1, co, AddSize(g, size(items[j], items, c, j)))
\* The tree under the root, and its records, arrays and pads
Tree == Nodes(root, <<>>, "object", 0, Ok(0), Ok(0))
Built == pc = "returned"
Final == pc \in {"returned", "raised"}
SizeOf(n) == size(n.o, n.sibs, n.c, n.i)
OffsetOf(n) == offset(n.o, n.sibs, n.c, n.i)
\* sum of size() of the items that precede item i of sibs
SizeBefore(n) == SumSizes(SubSeq(n.sibs, 1, n.i - 1), n.c, 1)
\* A datum of model m built on its own with the data d
Standalone(m, d) ==
  build(instantiate(m, "none").obj, d, <<>>, "object", 0, root_path).obj
\* v is a 2-tuple whose first element is a datum
IsRefinement(v) == v.t = "tuple" /\ Len(v.xs) = 2 /\ v.xs[1].t = "datum"

\* C2: in a tree whose root build() returned, every datum n has
\* len(n.get_bytes()) == n.size().
C2_SizeBytesAgree ==
  Built =>
    \A k \in 1..Len(Tree) :
      /\ get_bytes(Tree[k].o).err = "none"
      /\ SizeOf(Tree[k]).err = "none"
      /\ Len(get_bytes(Tree[k].o).val) = SizeOf(Tree[k]).val

\* The record {f: R, set by a setter that reads size(z) and returns (R2(),
\* {y: 0x0102}); pad: Align(4); z: Bytes} built with z of two bytes: the pad
\* was built in pass one, at offset 0, and f in pass two: get_bytes() of the
\* root has 4 bytes, size() of the root is 6, the pad has no bytes and size 2.
C2_Witness ==
  /\ Built
  /\ rootcls = "Late"
  /\ Len(input.d.z.b) = 2
  /\ passes = 2
  /\ get_bytes(root) = Ok(<<1, 2, 101, 102>>)
  /\ size(root, <<>>, "object", 0) = Ok(6)
  /\ get_bytes(root.attrs.pad) = Ok(<<>>)
  /\ size(root.attrs.pad, Block_get_items(root, TRUE).val, "Late", 2) = Ok(2)

\* C3: in a built tree every Align(A) at global offset O has size()
\* (A - O mod A) mod A and get_bytes() of that many zero bytes.
C3_AlignmentLaw ==
  Built =>
    \A k \in 1..Len(Tree) :
      Tree[k].o.cls = "Align" =>
        /\ Tree[k].g.err = "none"
        /\ SizeOf(Tree[k])
             = Ok((Tree[k].o.align_size - (Tree[k].g.val % Tree[k].o.align_size))
                    % Tree[k].o.align_size)
        /\ get_bytes(Tree[k].o)
             = Ok(Zeros((Tree[k].o.align_size - (Tree[k].g.val % Tree[k].o.align_size))
                          % Tree[k].o.align_size))

\* The record {h: Bytes, inner: {a: U8, pad: Align(4), b: U8}} built with h of
\* one byte: the pad sits at global offset 2 and has three bytes, so that b
\* starts at global offset 5.
C3_Witness ==
  /\ Built
  /\ rootcls = "Outer"
  /\ Len(input.d.h.b) = 1
  /\ \E k \in 1..Len(Tree) :
       /\ Tree[k].o.cls = "Align"
       /\ Tree[k].g = Ok(2)
       /\ SizeOf(Tree[k]) = Ok(3)
       /\ get_bytes(Tree[k].o) = Ok(<<0, 0, 0>>)

AcyclicClasses == {"Sized", "Chain", "Late", "OwnOffset"}
\* C5: a record whose setters' dependency relation is acyclic is resolved:
\* its build does not end with the cyclic-dependency BuildError (nor with a
\* DependencyError), also when a setter reads the offset of its own field.
C5_Resolves ==
  (rootcls \in AcyclicClasses /\ pc = "raised") =>
    (err \notin {"BuildError", "DependencyError"} /\ names = <<>>)
\* The record {xs: Bytes, n: U16 set by a setter that returns
\* self.n.offset()} ends with the cyclic-dependency error naming n.
C5_Witness ==
  /\ pc = "raised"
  /\ rootcls = "OwnOffset"
  /\ err = "BuildError"
  /\ names = <<"n">>
  /\ root.attrs.xs.is_built

\* C6: when a full pass over the not-done fields of a record resolves none
\* of them, the build fails with BuildError, whose message names every field
\* that is not done and no field that is done; the build never fails with a
\* DependencyError, and the passes of a record are no more than its fields.
C6_CycleDetection ==
  /\ [](err # "DependencyError")
  /\ [](passes <= Len(blockitems) + 1)
  /\ [][(pc = "for" /\ idx > Len(blockitems) /\ ~progress) =>
          /\ pc' = "raised"
          /\ err' = "BuildError"
          /\ \E k \in 1..Len(blockitems) : ~blockitems[k].done
          /\ \A k \in 1..Len(blockitems) :
               (\E j \in 1..Len(names') : names'[j] = blockitems[k].name)
                 <=> ~blockitems[k].done]_vars
\* The record {a set from int(b), b set from int(a), c} has failed after c
\* was built, and the message names a and b.
C6_Witness ==
  /\ pc = "raised"
  /\ rootcls = "Cyclic"
  /\ err = "BuildError"
  /\ names = <<"a", "b">>
  /\ blockitems[3].done
  /\ passes = 2

\* get_bytes() of the fields of the record b, joined in the order of the
\* declaration, each field looked up by its name
RECURSIVE FieldBytes(_, _, _)
FieldBytes(b, fs, j) ==
  IF j > Len(fs) THEN Ok(<<>>)
  ELSE Bind(get_bytes(b.attrs[fs[j].name]), LAMBDA x :
         IF x.err # "none" THEN x
         ELSE Bind(FieldBytes(b, fs, j + 1), LAMBDA r :
                IF r.err # "none" THEN r ELSE Ok(x.val \o r.val)))
\* C7: for every built Block b of a built tree, b.get_bytes() is the
\* concatenation of get_bytes() of its fields in declaration order, whatever
\* the pass and the order the fields were built in.
C7_Concatenation ==
  Built =>
    \A k \in 1..Len(Tree) :
      IsBlock(Tree[k].o) =>
        get_bytes(Tree[k].o) = FieldBytes(Tree[k].o, ClassFields(Tree[k].o.cls), 1)
\* The record {n: U16 set from size(xs), xs: Bytes} was built in two passes,
\* xs before n, and its bytes are those of n followed by those of xs.
C7_Witness ==
  /\ Built
  /\ rootcls = "Sized"
  /\ passes = 2
  /\ input.d.xs.b = <<101, 102>>
  /\ get_bytes(root) = Ok(<<0, 2, 101, 102>>)

\* The outcome of building a datum of model m on its own with the data d
BuildAlone(m, d) == build(instantiate(m, "none").obj, d, <<>>, "object", 0, root_path)
\* The child c was instantiated from the datum sub and built with d
BuiltFrom(c, sub, d) ==
  /\ c.cls = sub.cls
  /\ c.is_instance
  /\ c.is_built
  /\ get_bytes(c) = get_bytes(BuildAlone(sub, d).obj)
\* The refinement tuples among the elements xs whose datum is no subtype of m
NotSubtype(xs, m) ==
  {k \in 1..Len(xs) : IsRefinement(xs[k]) /\ ~IsSubclass(xs[k].xs[1].d.cls, m.cls)}
\* C8: when the value of a record field or of an array element declared with
\* model M is a 2-tuple (Sub, d) whose first element is a datum, then, if Sub
\* is of a subtype of M's type, the child is instantiated from Sub and built
\* with d (the build fails only as building Sub with d fails, never with
\* BuildError); if not, the build fails with BuildError and the field holds
\* no child built from Sub (the array holds no items).
C8_Refinement ==
  /\ (Final /\ rootcls = "Refined" /\ "f" \in DOMAIN input.d /\ IsRefinement(input.d.f)) =>
       Bind(input.d.f.xs, LAMBDA t :
         IF IsSubclass(t[1].d.cls, Block_fields("Refined")[1].model.cls)
           THEN Bind(BuildAlone(t[1].d, t[2]), LAMBDA a :
                  IF a.err = "none"
                    THEN pc = "returned" /\ BuiltFrom(root.attrs.f, t[1].d, t[2])
                    ELSE pc = "raised" /\ err = a.err /\ err # "BuildError")
         ELSE /\ pc = "raised"
              /\ err = "BuildError"
              /\ root.attrs.f.cls = "R"
              /\ ~root.attrs.f.is_built)
  /\ (Final /\ rootcls = "RefArr") =>
       Bind(input.d.xs.xs, LAMBDA xs :
         IF NotSubtype(xs, Block_fields("RefArr")[1].model.model[1]) = {}
           THEN /\ pc = "returned"
                /\ Len(root.attrs.xs.items) = Len(xs)
                /\ \A k \in 1..Len(xs) :
                     IsRefinement(xs[k]) =>
                       BuiltFrom(root.attrs.xs.items[k], xs[k].xs[1].d, xs[k].xs[2])
         ELSE /\ pc = "raised"
              /\ err = "BuildError"
              /\ root.attrs.xs.items = <<>>)
\* The field declared as R was given (R2(), {y: 0x0102}) and holds a built R2.
C8_Witness ==
  /\ Built
  /\ rootcls = "Refined"
  /\ input.d.f = RefineR2
  /\ root.attrs.f.cls = "R2"
  /\ root.attrs.f.is_built
  /\ get_bytes(root) = Ok(<<1, 2>>)

\* The classes of a record whose one field xs is an array of U8
ArrayClasses == {"Counted", "Uncounted", "Generic"}
\* C9: an array declared with count 2 builds only from a sequence of two
\* elements and fails with ValidationError for any other length; an array
\* declared without a count that was built from a sequence has as many items
\* as the input has elements, and each of them is a built datum.
C9_ArrayLength ==
  (Final /\ rootcls \in ArrayClasses /\ "xs" \in DOMAIN input.d /\ IsSequence(input.d.xs)) =>
    /\ (rootcls = "Counted" /\ SeqLen(input.d.xs) # 2) =>
         (pc = "raised" /\ err = "ValidationError")
    /\ pc = "returned" =>
         /\ rootcls = "Counted" => SeqLen(input.d.xs) = 2
         /\ Len(root.attrs.xs.items) = SeqLen(input.d.xs)
         /\ \A k \in 1..Len(root.attrs.xs.items) :
              /\ root.attrs.xs.items[k].is_instance
              /\ root.attrs.xs.items[k].is_built
              /\ get_bytes(root.attrs.xs.items[k]).err = "none"
\* The array without a count was built from [1, U8()]: its second item is
\* the datum that was handed in, which was never built.
C9_Witness ==
  /\ Built
  /\ rootcls = "Uncounted"
  /\ input.d.xs = ListV(<<PyInt(1), DatumV(MkPrim("U8"))>>)
  /\ Len(root.attrs.xs.items) = 2
  /\ ~root.attrs.xs.items[2].is_built
  /\ get_bytes(root) = Raise("BuildError")

\* The records whose first field is declared Optional(M), and that field
OptionalClasses == {"Opt", "OptBytes", "OptInner"}
OptionalField == Block_fields(rootcls)[1]
\* The input has no data for the Optional: no key, None or an empty sequence
OptionalEmpty ==
  \/ OptionalField.name \notin DOMAIN input.d
  \/ input.d[OptionalField.name].t = "none"
  \/ IsSequence(input.d[OptionalField.name]) /\ SeqLen(input.d[OptionalField.name]) = 0
\* C10: an Optional(M) field built with no key, None or an empty sequence
\* has size() 0 and empty get_bytes(); built with any other d that is valid
\* for M, its size() and get_bytes() are those of M built with d.
C10_OptionalIdentity ==
  (Final /\ rootcls \in OptionalClasses) =>
    IF OptionalEmpty
      THEN /\ pc = "returned"
           /\ size(root.attrs[OptionalField.name], Block_get_items(root, TRUE).val,
                   rootcls, 1) = Ok(0)
           /\ get_bytes(root.attrs[OptionalField.name]) = Ok(<<>>)
    ELSE Bind(BuildAlone(OptionalField.model.model[1], input.d[OptionalField.name]),
              LAMBDA a :
           IF a.err # "none" THEN pc = "raised" /\ err = a.err
           ELSE /\ pc = "returned"
                /\ size(root.attrs[OptionalField.name], Block_get_items(root, TRUE).val,
                        rootcls, 1) = size(a.obj, <<>>, "object", 0)
                /\ get_bytes(root.attrs[OptionalField.name]) = get_bytes(a.obj)
                /\ get_bytes(a.obj).err = "none")
\* Optional(Bytes) was built with two bytes and has them; the record's
\* second field follows them.
C10_Witness ==
  /\ Built
  /\ rootcls = "OptBytes"
  /\ input.d.o = SomeBytes(2)
  /\ get_bytes(root.attrs.o) = Ok(<<101, 102>>)
  /\ size(root.attrs.o, Block_get_items(root, TRUE).val, "OptBytes", 1) = Ok(2)
  /\ get_bytes(root) = Ok(<<101, 102, 9>>)

\* C11: build(data) on a model, or on an instance on which build() was called
\* before (whether that build returned or raised), raises BuildError and
\* leaves the datum as it was; instantiate() on a datum whose is_built is true
\* raises BuildError; get_bytes() on a model or on an instance that was not
\* built raises BuildError.
C11_LifecycleGuards ==
  [][/\ CallBuild => (root.is_built /\ call'.err = "BuildError" /\ root' = root)
     /\ CallBuildModel => (call'.err = "BuildError" /\ schema' = schema)
     /\ (CallInstantiate /\ root.is_built) => call'.err = "BuildError"
     /\ (CallInstantiate /\ ~root.is_built) => call'.err = "none"
     /\ (CallGetBytes /\ (call'.on = "model" \/ ~root.is_built)) => call'.err = "BuildError"
    ]_vars
\* build() was called again on a root whose first build had raised
\* ValidationError: the call raised BuildError.
C11_Witness ==
  /\ pc = "raised"
  /\ err = "ValidationError"
  /\ root.is_instance
  /\ root.is_built
  /\ call = [op |-> "build", on |-> "root", err |-> "BuildError", val |-> <<>>]

\* Field f can do without a key in the input: it has a setter, or its model
\* is a generator (Align), an Optional, or a datum with a default that is not
\* None.
Supplied(f) ==
  \/ f.setter.has
  \/ IsSubclass(f.model.cls, "GenDatatype")
  \/ f.model.cls = "Optional"
  \/ f.model.default_value # NoneV
\* The input of the root fails the preflight: it is no dict, or a declared
\* field has no key in it and cannot do without
FailsPreflight ==
  \/ input.t # "dict"
  \/ \E i \in 1..Len(Block_fields(rootcls)) :
       /\ Block_fields(rootcls)[i].name \notin DOMAIN input.d
       /\ ~Supplied(Block_fields(rootcls)[i])
\* C12: the build of a record whose input fails the preflight raises
\* ValidationError before a setter is invoked and before a field is
\* instantiated or built (no blockitem exists, the fields are the
\* placeholders they were); any other input passes the preflight, and the
\* resolver starts with every field not done and no setter run.
C12_Preflight ==
  [][BuildCall =>
       IF FailsPreflight
         THEN /\ pc' = "raised"
              /\ err' = "ValidationError"
              /\ blockitems' = <<>>
              /\ root'.attrs = root.attrs
              /\ \A n \in DOMAIN root.attrs : ~root.attrs[n].is_built
         ELSE /\ pc' = "while"
              /\ Len(blockitems') = Len(Block_fields(rootcls))
              /\ \A k \in 1..Len(blockitems') :
                   ~blockitems'[k].done /\ ~blockitems'[k].setter_done
    ]_vars
\* {a: U8(default=5), o: Optional(U8), pad: Align(2), s: U8 with a setter,
\* b: U8} built with {a: 2}: b has no key, the build raised ValidationError
\* before the first pass.
C12_Witness ==
  /\ pc = "raised"
  /\ rootcls = "Defaulted"
  /\ input = DictV("a" :> PyInt(2))
  /\ err = "ValidationError"
  /\ passes = 0
  /\ blockitems = <<>>
  /\ ~root.attrs.a.is_built

\* What the attempt of the field at idx raises ("none" when it returns)
AttemptRaises == BlockItem_build(blockitems[idx], root, root_path).err
\* The fields of the root other than the one at idx are what they were
OthersUntouched ==
  \A k \in 1..Len(blockitems) :
    k # idx => /\ blockitems'[k] = blockitems[k]
               /\ root'.attrs[blockitems[k].name] = root.attrs[blockitems[k].name]
\* C13: a DependencyError raised by the attempt of a field (by its setter or
\* below its instance) stays inside the build of the record: the field is
\* left not done, the pass goes on with the next field, and the pass ends
\* either in another pass that attempts the field again or in the cyclic
\* BuildError; the build never ends with a DependencyError.  Any other error
\* of an attempt ends the build at that attempt with the same error kind,
\* and no other field is attempted after it.
C13_ErrorPropagation ==
  /\ [][Attempt =>
          /\ AttemptRaises = "DependencyError" =>
                /\ pc' = "for"
                /\ idx' = idx + 1
                /\ ~blockitems'[idx].done
                /\ progress' = progress
                /\ err' = "none"
          /\ AttemptRaises \notin {"none", "DependencyError"} =>
                /\ pc' = "raised"
                /\ err' = AttemptRaises
                /\ OthersUntouched
          /\ AttemptRaises = "none" => (pc' = "for" /\ blockitems'[idx].done)
       ]_vars
  /\ [][(EndPass /\ \E k \in 1..Len(blockitems) : ~blockitems[k].done) =>
          \/ pc' = "raised" /\ err' = "BuildError" /\ ~progress
          \/ pc' = "while" /\ progress /\ blockitems' = blockitems
       ]_vars
  /\ [][(LoopTest /\ \E k \in 1..Len(blockitems) : ~blockitems[k].done) =>
          (pc' = "for" /\ idx' = 1)]_vars
  /\ [][pc = "raised" => (pc' \notin {"while", "for"} /\ pc' # "returned")]_vars
  /\ []((pc = "raised") => err \notin {"none", "DependencyError"})
\* {a set from int(b), b set from int(a), c} built with c = 256: the attempts
\* of a and b raised DependencyError and left them not done, the attempt of
\* c raised ValidationError, which ended the build in its first pass.
C13_Witness ==
  /\ pc = "raised"
  /\ rootcls = "Cyclic"
  /\ err = "ValidationError"
  /\ passes = 1
  /\ idx = 3
  /\ ~blockitems[1].done /\ ~blockitems[2].done /\ ~blockitems[3].done
  /\ ~blockitems[1].setter_done

\* The field models the class statements declare
DeclaredSchema == [c \in Classes |-> ClassFields(c)]
C14_WitnessFailed ==
  /\ pc = "raised"
  /\ rootcls = "Pair"
  /\ prev.known
  /\ prev.err = "ValidationError"
  /\ err = "ValidationError"

\* The width in bits the name of a primitive class gives, and the range the
\* class accepts: [0, 2^w - 1] for U, [-2^(w-1), 2^(w-1) - 1] for S,
\* [-2^(w-1), 2^w - 1] for I
WidthOf(c) ==
  IF c \in {"U8", "S8", "I8"} THEN 8 ELSE IF c \in {"U16", "S16", "I16"} THEN 16 ELSE 32
Lowest(c) == IF c \in {"U8", "U16", "U32"} THEN PyInt(0) ELSE IntNeg(Pow2(WidthOf(c) - 1))
Highest(c) ==
  IF c \in {"S8", "S16", "S32"} THEN IntPred(Pow2(WidthOf(c) - 1))
  ELSE IntPred(Pow2(WidthOf(c)))
InRange(c, v) == v.t = "int" /\ ~IntLt(v, Lowest(c)) /\ ~IntLt(Highest(c), v)
\* The build of a record {v: P()} has ended, and its input had a value for v
PrimEnded ==
  /\ pc \in {"returned", "raised"}
  /\ rootcls \in DOMAIN PrimRecord
  /\ input.t = "dict"
  /\ "v" \in DOMAIN input.d
\* C15: the build of a primitive P with the input v raises ValidationError
\* and stores no value iff v is no int (bytes, a bool) or lies outside the
\* range of P; an int of the range is accepted and stored.
C15_RangeValidation ==
  PrimEnded =>
    IF InRange(PrimRecord[rootcls], input.d.v)
      THEN /\ pc = "returned"
           /\ err = "none"
           /\ root.attrs.v.data = input.d.v
      ELSE /\ pc = "raised"
           /\ err = "ValidationError"
           /\ root.attrs.v.is_built
           /\ root.attrs.v.data = NoneV
\* I16 built with 65535, the highest value of its range, was accepted
C15_Witness ==
  /\ PrimEnded
  /\ pc = "returned"
  /\ rootcls = "RecI16"
  /\ input.d.v = PyInt(65535)
  /\ root.attrs.v.data = PyInt(65535)
\* S8 built with 128, the value above its range, raised ValidationError
C15_WitnessRejected ==
  /\ PrimEnded
  /\ pc = "raised"
  /\ rootcls = "RecS8"
  /\ input.d.v = PyInt(128)
  /\ err = "ValidationError"
  /\ root.attrs.v.data = NoneV
\* U8 built with True raised ValidationError: a bool is no int here
C15_WitnessBool ==
  /\ PrimEnded
  /\ pc = "raised"
  /\ rootcls = "RecU8"
  /\ input.d.v = BoolV(TRUE)
  /\ err = "ValidationError"

\* An entry point has made the root instance and its build has not ended
InProgress == pc \in {"instantiated", "while", "for"}
\* C16: while the tree of an entry point is built, the root directory is the
\* one that entry point has set: it is not unset, and it is not the directory
\* an earlier entry point left behind.
C16_AmbientRoot ==
  InProgress => (entry.dir # "" /\ root_path = entry.dir)
\* After a data file of dirA was built, baf.build of {f: File(), t: U8()}
\* with the relative path one.bin has read dirA/one.bin.
C16_Witness ==
  /\ pc = "returned"
  /\ entry.kind = "build"
  /\ rootcls = "WithFile"
  /\ input = RelativeFile("one.bin")
  /\ root_path = "dirA"
  /\ root.attrs.f.data = BytesV(FileSystem[<<"dirA", "one.bin">>])
\* In a process that built no data file, the same build has raised
\* AttributeError: the root directory was never assigned.
C16_WitnessUnset ==
  /\ pc = "raised"
  /\ entry.kind = "build"
  /\ rootcls = "WithFile"
  /\ input = RelativeFile("one.bin")
  /\ root_path = "unset"
  /\ err = "AttributeError"
\* build_json and build_toml do set the root directory before the build
C16_FileEntryPoints ==
  (InProgress /\ entry.kind \in {"build_json", "build_toml"}) => root_path = entry.dir

\* The build of {o: Optional(R()), t: U8()} has ended, and the input gave o
\* a tuple (Sub(), payload) with Sub a subclass of R
OptionalRefined ==
  /\ Final
  /\ rootcls = "OptR"
  /\ "o" \in DOMAIN input.d
  /\ IsRefinement(input.d.o)
  /\ IsSubclass(input.d.o.xs[1].d.cls, "R")
\* C17: a field declared Optional(M) that is given a tuple (Sub, payload)
\* with Sub a subtype of M is built as a present Optional whose inner datum
\* is an instance of Sub built with payload.
C17_OptionalRefinement ==
  OptionalRefined =>
    /\ pc = "returned"
    /\ root.attrs.o.is_built
    /\ Len(root.attrs.o.item) = 1
    /\ root.attrs.o.item[1].cls = input.d.o.xs[1].d.cls
    /\ get_bytes(root.attrs.o.item[1]) =
         get_bytes(Standalone(input.d.o.xs[1].d, input.d.o.xs[2]))
\* {o: Optional(R()), t: U8()} built with o = (R2(), {y: 258}) has raised
\* BuildError, and the Optional holds no inner datum.
C17_Witness ==
  /\ OptionalRefined
  /\ pc = "raised"
  /\ input.d.o = RefineR2
  /\ err = "BuildError"
  /\ root.attrs.o.item = <<>>

\* The parents of the children r.get_items(True) returns for the root r
ChildParents ==
  LET its == Block_get_items(root, TRUE).val
  IN  {its[k].parent : k \in 1..Len(its)}
\* C18: at every point of the life of the root instance r (after
\* instantiate(), between the attempts of the resolver, after the build),
\* every child r.get_items(True) returns has r, the instance, as its parent.
C18_ParentLinkage ==
  (root # NoObj /\ root.is_instance) => ChildParents \subseteq {"inst"}
\* Right after instantiate() of {a: U16(), b: S8()} both placeholders have
\* the model as their parent.
C18_Witness ==
  /\ pc = "instantiated"
  /\ rootcls = "Pair"
  /\ root.is_instance
  /\ ~root.is_built
  /\ root.attrs.a.parent = "model"
  /\ root.attrs.b.parent = "model"
\* In a build that returned, every field the resolver instantiated has the
\* instance as its parent
C18_AfterBuild ==
  (Built /\ \A n \in DOMAIN input.d : input.d[n].t # "datum") =>
    ChildParents \subseteq {"inst"}

\* offset() of node n is the sum of the sizes of the items before it, or
\* raises DependencyError
OffsetTotal(n) ==
  \/ OffsetOf(n).err = "DependencyError"
  \/ OffsetOf(n).err = "none" /\ OffsetOf(n) = SizeBefore(n)
\* C19: in the tree of a build that returned, offset() of every instance
\* that has a parent returns the sum of size() of the items before it in the
\* parent's get_items(True), or raises DependencyError; it raises no
\* InternalError, the inner datum of a present Optional included.
C19_OffsetTotal ==
  Built =>
    \A k \in 1..Len(Tree) :
      (Tree[k].o.is_instance /\ Tree[k].o.parent # "none") => OffsetTotal(Tree[k])
\* {o: Optional(Bytes()), t: U8()} was built with bytes for o: the inner
\* datum has the record as its parent, is none of the record's items, and
\* its offset() raises InternalError.
C19_Witness ==
  /\ Built
  /\ rootcls = "OptBytes"
  /\ root.attrs.o.item # <<>>
  /\ root.attrs.o.item[1].parent = "inst"
  /\ \E k \in 1..Len(Tree) :
       /\ Tree[k].o = root.attrs.o.item[1]
       /\ Tree[k].i = 0
       /\ OffsetOf(Tree[k]) = Raise("InternalError")
\* offset() of the fields of the records themselves does not raise
\* InternalError in a build that returned
C19_Fields ==
  Built =>
    \A k \in 1..Len(Tree) :
      (Tree[k].i > 0 /\ Tree[k].o.parent = "inst") => OffsetOf(Tree[k]).err # "InternalError"

\* The places among the blockitems of the fields whose setter calls
\* force_dependency on the field at place j
Forcing(j) ==
  {k \in 1..Len(blockitems) :
     \E r \in 1..Len(blockitems[k].setter.reads) :
       blockitems[k].setter.reads[r] = <<"force", blockitems[j].name>>}
\* C20: a setter that calls force_dependency on the sibling field f has not
\* returned as long as f is not done: whenever such a setter has run to its
\* end, the build of f has completed.
C20_ForceDependency ==
  \A j \in 1..Len(blockitems) :
    \A k \in Forcing(j) : blockitems[k].setter_done => blockitems[j].done
\* {n: set_n forces pad and returns 7, z: set from xs.size(), pad: Align(4),
\* xs}: in the second pass set_n has returned and n is built, while pad,
\* whose first attempt was abandoned with DependencyError, is installed
\* with no pad amount and is not done.
C20_Witness ==
  /\ rootcls = "Forced"
  /\ pc = "for"
  /\ passes = 2
  /\ blockitems[1].setter_done
  /\ blockitems[1].done
  /\ root.attrs.n.data = PyInt(7)
  /\ ~blockitems[3].done
  /\ root.attrs.pad.is_built
  /\ root.attrs.pad.pad_amount = {}
\* While the forced field is still a placeholder, the setter does not return
C20_Placeholder ==
  \A j \in 1..Len(blockitems) :
    \A k \in Forcing(j) :
      (pc \in {"while", "for"} /\ blockitems[k].setter_done)
        => root.attrs[blockitems[j].name].is_built

\* The record and every descendant of it is a built instance whose
\* get_bytes() and size() return
TreeBuilt ==
  \A k \in 1..Len(Tree) :
    /\ Tree[k].o.is_instance
    /\ Tree[k].o.is_built
    /\ get_bytes(Tree[k].o).err = "none"
    /\ SizeOf(Tree[k]).err = "none"
\* A Python value that is a datum, or a list or tuple that holds one
HoldsDatum(v) ==
  \/ v.t = "datum"
  \/ v.t \in {"list", "tuple"} /\ \E j \in 1..Len(v.xs) : v.xs[j].t = "datum"
\* C21: when the build of a record has returned, every field and every
\* descendant is an instance that is built (a datum handed in is installed
\* as it is only when it is already built), and get_bytes() and size() of
\* the record and of each descendant return.
C21_BuiltTree ==
  Built => TreeBuilt
\* {a: U16(), b: S8()} built with b = S8(), a model that was never
\* instantiated or built: the build returned, b is that model, and
\* get_bytes() of the record raises BuildError.
C21_Witness ==
  /\ Built
  /\ rootcls = "Pair"
  /\ input.d.b = DatumV(MkPrim("S8"))
  /\ root.is_built
  /\ root.attrs.b = MkPrim("S8")
  /\ ~root.attrs.b.is_instance
  /\ ~root.attrs.b.is_built
  /\ get_bytes(root) = Raise("BuildError")
\* In a build that returned from an input that hands in no datum, the
\* postcondition holds
C21_NoDatum ==
  (Built /\ \A n \in DOMAIN input.d : ~HoldsDatum(input.d[n])) => TreeBuilt
\* A datum that is built and of the field's type is installed as it is
C21_BuiltDatum ==
  (Built /\ rootcls = "Pair" /\ input.d.b = DatumV(BuiltPrim("S8", -2))) =>
    (root.attrs.b = BuiltPrim("S8", -2) /\ get_bytes(root).err = "none")

\* What the setter of the field at idx does when it is called now
SetterNow == RunSetter(blockitems[idx].setter, root, 1, NoneV)
\* C22: within one build of a record the setter of each field returns at
\* most once.  An attempt whose setter raises DependencyError leaves the
\* entry as it was (data, setter_done, done) and the field not done, to be
\* attempted in the next pass; an attempt whose setter returns stores the
\* value and sets setter_done; an attempt of a field whose setter has
\* returned does not call the setter and keeps the value, also when the
\* build of the field had raised DependencyError and the field is retried.
C22_SetterOnce ==
  /\ [](\A k \in 1..Len(blockitems) :
          /\ blockitems[k].setter_returns <= 1
          /\ blockitems[k].setter_done <=> blockitems[k].setter_returns = 1)
  /\ [][Attempt =>
          /\ (blockitems[idx].setter.has /\ ~blockitems[idx].setter_done
                /\ SetterNow.err = "DependencyError") =>
                (blockitems'[idx] = blockitems[idx] /\ pc' = "for")
          /\ (blockitems[idx].setter.has /\ ~blockitems[idx].setter_done
                /\ SetterNow.err = "none") =>
                /\ blockitems'[idx].setter_done
                /\ blockitems'[idx].data = SetterNow.val
                /\ blockitems'[idx].setter_returns = 1
          /\ blockitems[idx].setter_done =>
                /\ blockitems'[idx].setter_done
                /\ blockitems'[idx].data = blockitems[idx].data
                /\ blockitems'[idx].setter_returns = 1
       ]_vars
  /\ [][(pc \in {"while", "for"} /\ pc' \in {"while", "for"}) =>
          \A k \in 1..Len(blockitems) :
            blockitems[k].setter_done => blockitems'[k].setter_done]_vars
\* {z: Bytes set from xs.size(), p: Align(4) with a setter that returns
\* None, xs: Bytes}: in the first pass the setter of p returned and the build
\* of p raised DependencyError; in the second pass p was attempted again and
\* built, and its setter has returned once.
C22_Witness ==
  /\ rootcls = "Once"
  /\ pc = "for"
  /\ passes = 2
  /\ idx = 3
  /\ blockitems[2].setter_done
  /\ blockitems[2].done
  /\ blockitems[2].setter_returns = 1
  /\ root.attrs.p.pad_amount # {}
\* The same record in its first pass: the setter of p has returned, the
\* build of p was abandoned, p is not done
C22_WitnessAbandoned ==
  /\ rootcls = "Once"
  /\ pc = "for"
  /\ passes = 1
  /\ idx = 3
  /\ blockitems[2].setter_done
  /\ ~blockitems[2].done
  /\ root.attrs.p.is_built
  /\ root.attrs.p.pad_amount = {}
  /\ ~blockitems[1].setter_done

\* The resolver of the root is running
Resolving == pc \in {"while", "for"}
\* The number of fields that are done
DoneCount(items) == Cardinality({k \in 1..Len(items) : items[k].done})
\* The field at idx holds the datum of an attempt that was abandoned
Abandoned == root.attrs[blockitems[idx].name].is_built
\* How far the resolver has come: the passes begun, and the place in the
\* pass (the fields in order, the check after the last field, the test of
\* the while loop)
Rank ==
  passes * (Len(blockitems) + 2) + (IF pc = "for" THEN idx ELSE Len(blockitems) + 2)
\* C23: the resolver of a record with N fields ends, after at most N
\* passes: each of its steps (every setter call returns or raises) takes it
\* one place further, and there are no more than (N + 1) * (N + 2) places.
\* A pass that goes on to another pass has marked a field done
\* that was not done; a field that is done is passed over and is not
\* replaced by the attempt of another field; an attempt does not build the
\* datum an earlier attempt left behind but a new instance, so that the
\* retry of an abandoned field never raises BuildError.
C23_BoundedFixpoint ==
  /\ [](passes <= Len(blockitems))
  /\ [](Resolving => Rank <= (Len(blockitems) + 1) * (Len(blockitems) + 2))
  /\ [][Resolving => (Rank' = Rank + 1 \/ pc' \in {"returned", "raised"})]_vars
  /\ [][Resolving => DoneCount(blockitems') >= DoneCount(blockitems) \/ ~Resolving']_vars
  /\ [][LoopTest => (progress' = FALSE \/ pc' = "returned")]_vars
  /\ [][Attempt =>
          /\ progress' # progress =>
                (progress' /\ blockitems'[idx].done /\ ~blockitems[idx].done)
          /\ \A k \in 1..Len(blockitems) :
                k # idx => /\ blockitems'[k] = blockitems[k]
                           /\ root'.attrs[blockitems[k].name] = root.attrs[blockitems[k].name]
          /\ Abandoned => AttemptRaises # "BuildError"
          /\ (Abandoned /\ AttemptRaises = "none") =>
                /\ root'.attrs[blockitems[idx].name].is_built
                /\ root'.attrs[blockitems[idx].name].parent = "inst"
       ]_vars
  /\ [][Skip => (blockitems' = blockitems /\ root' = root /\ progress' = progress
                  /\ idx' = idx + 1 /\ pc' = "for")]_vars
  /\ [][EndPass => (IF progress THEN pc' = "while" ELSE pc' = "raised")]_vars
\* {a from int(b), b from int(c), c} was built in three passes, one field
\* done in each, as many passes as it has fields.
C23_Witness ==
  /\ pc = "returned"
  /\ rootcls = "Chain"
  /\ Len(blockitems) = 3
  /\ passes = 3
  /\ DoneCount(blockitems) = 3
\* The pad whose first attempt was abandoned was built from a new instance
\* in the second pass
C23_WitnessRetry ==
  /\ rootcls = "Once"
  /\ pc = "returned"
  /\ passes = 2
  /\ root.attrs.p.pad_amount # {}

====
